---- MODULE Spec2Model ----
(***************************************************************************)
(* Model of the element-resolution, validation and step-orchestration      *)
(* engine of src/web_actions.py (class WebActions).                        *)
(*                                                                         *)
(* Texts are sequences of characters so that Python's `a in b` on two      *)
(* strings (substring test) and `a in [..]` on a list (membership) are     *)
(* different operations in the model, as they are in the code.             *)
(*                                                                         *)
(* Time is counted in ticks of one WebDriverWait poll (0.25 s).  Calls to  *)
(* the remote driver take no time; time passes only in sleeps and polls.   *)
(***************************************************************************)
EXTENDS Integers, Sequences, FiniteSets, TLC

(***************************************************************************)
(* Bounds                                                                  *)
(***************************************************************************)
MaxSteps == 2        \* longest step list handed to repeat_steps_until_success
MaxAttempts == 2     \* largest no_of_attempts argument / per-step override
MaxPasses == 4       \* cap on the passes explored of a loop that never ends
MaxValAttempts == 3  \* largest no_of_attempts handed to validate_text
MaxClickWait == 4    \* largest max_wait_time handed to click, in ticks
MaxWaitSeconds == 2  \* largest max_wait_time handed to the text waits, in seconds
MaxStart == 1        \* latest clock reading at which a timed call begins

(***************************************************************************)
(* State                                                                   *)
(***************************************************************************)
\* repeat_steps_until_success: arguments, locals, position, outcome, and the
\* history the properties speak about (passes, matched, stopSeen, lastObs,
\* postPass)
VARIABLES steps, no_of_attempts, initial_attempts, raise_exception,
          return_data, data, break_flag, pc, idx, result,
          passes, matched, stopSeen, lastObs, postPass
\* repeat_steps_until_success: the shared max_wait_time local, the value the
\* caller passed, and the history of the dispatches (the wait the last
\* dispatched step was called with, the steps dispatched and the inter-step
\* sleeps taken in the current pass, the validate_text steps that returned)
VARIABLES o_max_wait_time, o_initial_wait, used_wait, dispatched,
          sleeps, validates
\* validate_text: arguments, the texts the element shows on successive
\* reads, locals, position, outcome
VARIABLES v_feed, v_text, v_stop_texts, v_no_of_attempts, v_inst_raise,
          v_attempts, v_data, v_pc, v_result, v_reads, v_resolves, v_sleeps
\* the wall clock (ticks)
VARIABLES now
\* click: arguments, locals, position, outcome, history
VARIABLES c_max_wait_time, c_inst_raise, c_start, c_pc, c_result,
          c_clicked, c_timed_out, c_tries, c_wait_start, c_wait_budget
\* wait_until_text_matches / wait_until_element_text_changes
VARIABLES w_op, w_timeout, w_inst_raise, w_max_wait_time, w_start, w_pc,
          w_result, w_satisfied, w_resolved, w_confirmed, w_change_polls

\* _perform_action (set_text, set_text_enter, switch_to_frame, get_text):
\* arguments, position, outcome, the error met and the element calls made
VARIABLES a_action, a_inst_raise, a_max_wait_time, a_pc, a_result, a_fault,
          a_ops, a_resolutions, a_found
\* check_element_exist: self.raise_exception (e_flag) and its value before the
\* first call (e_flag0), the call's arguments and locals, outcome, calls made
VARIABLES e_flag, e_flag0, e_arg_raise, e_original_flag, e_max_wait_time,
          e_pc, e_elem, e_result, e_calls
\* _get_element_if_exist: arguments, outcome, time spent and polls made
VARIABLES r_max_wait_time, r_inst_raise, r_start, r_pc, r_result, r_polls
\* select_element / deselect_element: arguments, outcome, resolutions
\* attempted and the primitive invoked
VARIABLES s_op, s_element, s_max_wait_time, s_index, s_visible_text, s_value,
          s_is_clickable, s_name, s_inst_raise, s_pc, s_result, s_resolutions,
          s_invoked, s_fault, s_message
\* ExcelAutomation.quit: arguments, loop index, position, the calls made,
\* the clock at entry and how the call ended
VARIABLES q_retries, q_delay, q_i, q_pc, q_log, q_start, q_result
\* WebActions.quit: whether the instance holds a driver, position, calls
\* made, calls of driver.quit() made and how the last call ended
VARIABLES d_driver, d_pc, d_calls, d_quits, d_result, d_caller, d_log
\* threaded_wait_until_element_text_changes: the caller's position, threads started, and whether the caller touched the driver while the worker ran
VARIABLES t_pc, t_threads, t_overlap
\* _time_left: the start and timeout of one wait, the latest reading and the one before it, when the latest was taken, readings taken
VARIABLES l_start, l_timeout, l_remaining, l_prev, l_read_at, l_reads, l_pc
\* _get_find_method: the locator, an instance attribute, the latest strategy returned and the one before it, calls made
VARIABLES f_element, f_inst_raise, f_inst_raise0, f_result, f_prev, f_calls
\* read_config: the loaded configuration, the arguments, position and outcome
VARIABLES g_config, g_tag, g_write_to_console, g_raise_error_on_not_found, g_validate_existence, g_if_none_return, g_pc, g_result
\* set_text with validate=True: arguments, locals, position, outcome, and the history of the re-injections (operations on the element, value reads, sleeps)
VARIABLES x_validate, x_max_validation_attempts, x_clear_text, x_inst_raise, x_attempts, x_pc, x_result, x_ops, x_reads, x_differed, x_sleeps

orchVars == <<steps, no_of_attempts, initial_attempts, raise_exception,
              return_data, data, break_flag, pc, idx, result,
              passes, matched, stopSeen, lastObs, postPass,
              o_max_wait_time, o_initial_wait, used_wait, dispatched,
              sleeps, validates>>
valVars == <<v_feed, v_text, v_stop_texts, v_no_of_attempts, v_inst_raise,
             v_attempts, v_data, v_pc, v_result, v_reads,
             v_resolves, v_sleeps>>
clickVars == <<c_max_wait_time, c_inst_raise, c_start, c_pc, c_result,
               c_clicked, c_timed_out, c_tries, c_wait_start, c_wait_budget>>
waitVars == <<w_op, w_timeout, w_inst_raise, w_max_wait_time, w_start, w_pc,
              w_result, w_satisfied, w_resolved, w_confirmed, w_change_polls>>

actVars == <<a_action, a_inst_raise, a_max_wait_time, a_pc, a_result, a_fault,
             a_ops, a_resolutions, a_found>>
chkVars == <<e_flag, e_flag0, e_arg_raise, e_original_flag, e_max_wait_time,
             e_pc, e_elem, e_result, e_calls>>
resVars == <<r_max_wait_time, r_inst_raise, r_start, r_pc, r_result, r_polls>>
selVars == <<s_op, s_element, s_max_wait_time, s_index, s_visible_text, s_value,
             s_is_clickable, s_name, s_inst_raise, s_pc, s_result,
             s_resolutions, s_invoked, s_fault, s_message>>
quitVars == <<q_retries, q_delay, q_i, q_pc, q_log, q_start, q_result,
              d_driver, d_pc, d_calls, d_quits, d_result, d_caller, d_log>>
thrVars == <<t_pc, t_threads, t_overlap>>
leftVars == <<l_start, l_timeout, l_remaining, l_prev, l_read_at, l_reads, l_pc>>
findVars == <<f_element, f_inst_raise, f_inst_raise0, f_result, f_prev, f_calls>>
cfgVars == <<g_config, g_tag, g_write_to_console, g_raise_error_on_not_found, g_validate_existence, g_if_none_return, g_pc, g_result>>
txtVars == <<x_validate, x_max_validation_attempts, x_clear_text, x_inst_raise, x_attempts, x_pc, x_result, x_ops, x_reads, x_differed, x_sleeps>>

vars == <<orchVars, valVars, now, clickVars, waitVars, actVars, chkVars,
          resVars, selVars, quitVars,
          thrVars,
          leftVars,
          findVars,
          cfgVars,
          txtVars>>
notOrch == <<valVars, now, clickVars, waitVars, actVars, chkVars, resVars,
             selVars, quitVars,
          thrVars,
          leftVars,
          findVars,
          cfgVars,
          txtVars>>
notVal == <<orchVars, now, clickVars, waitVars, actVars, chkVars, resVars,
            selVars, quitVars,
          thrVars,
          leftVars,
          findVars,
          cfgVars,
          txtVars>>
notClick == <<orchVars, valVars, waitVars, actVars, chkVars, resVars, selVars,
              quitVars,
          thrVars,
          leftVars,
          findVars,
          cfgVars,
          txtVars>>
notWait == <<orchVars, valVars, clickVars, actVars, chkVars, resVars, selVars,
             quitVars,
          thrVars,
          leftVars,
          findVars,
          cfgVars,
          txtVars>>
notAct == <<orchVars, valVars, clickVars, waitVars, chkVars, resVars, selVars,
            quitVars,
          thrVars,
          leftVars,
          findVars,
          cfgVars,
          txtVars>>
notChk == <<orchVars, valVars, clickVars, waitVars, actVars, resVars, selVars,
            quitVars,
          thrVars,
          leftVars,
          findVars,
          cfgVars,
          txtVars>>
notRes == <<orchVars, valVars, clickVars, waitVars, actVars, chkVars, selVars,
            quitVars,
          thrVars,
          leftVars,
          findVars,
          cfgVars,
          txtVars>>
notSel == <<orchVars, valVars, now, clickVars, waitVars, actVars, chkVars,
            resVars, quitVars,
          thrVars,
          leftVars,
          findVars,
          cfgVars,
          txtVars>>
notQuit == <<orchVars, valVars, clickVars, waitVars, actVars, chkVars, resVars,
             selVars,
          thrVars,
          leftVars,
          findVars,
          cfgVars,
          txtVars>>
notThread == <<orchVars, valVars, clickVars, actVars, chkVars, resVars,
              selVars, quitVars,
          leftVars,
          findVars,
          cfgVars,
          txtVars>>
notLeft == <<orchVars, valVars, clickVars, waitVars, actVars, chkVars, resVars,
          selVars, quitVars, thrVars,
          findVars,
          cfgVars,
          txtVars>>
notFind == <<orchVars, valVars, now, clickVars, waitVars, actVars, chkVars,
          resVars, selVars, quitVars, thrVars, leftVars,
          cfgVars,
          txtVars>>
notConfig == <<orchVars, valVars, now, clickVars, waitVars, actVars, chkVars,
          resVars, selVars, quitVars, thrVars, leftVars, findVars,
          txtVars>>
notText == <<orchVars, valVars, now, clickVars, waitVars, actVars, chkVars,
          resVars, selVars, quitVars, thrVars, leftVars, findVars,
          cfgVars>>

(***************************************************************************)
(* Values                                                                  *)
(***************************************************************************)
\* Python None / a present string
None == [none |-> TRUE, text |-> <<>>]
Some(t) == [none |-> FALSE, text |-> t]

\* Python values that reach the selection dispatcher: None, an int, a str,
\* a bool, or some other object (self, a Select, a dict)
PyNone == [t |-> "none", n |-> 0, s |-> ""]
PyInt(n) == [t |-> "int", n |-> n, s |-> ""]
PyStr(s) == [t |-> "str", n |-> 0, s |-> s]
PyBool(b) == [t |-> "bool", n |-> IF b THEN 1 ELSE 0, s |-> ""]
PyObj(id) == [t |-> "obj", n |-> 0, s |-> id]

\* a == b of Python: numbers compare by value (True == 1), strings by
\* content, None and other objects only equal themselves
PyEq(a, b) ==
    CASE a.t \in {"int", "bool"} /\ b.t \in {"int", "bool"} -> a.n = b.n
      [] a.t = "str" /\ b.t = "str" -> a.s = b.s
      [] OTHER -> a = b

\* bool(a) of Python
PyTruthy(a) ==
    CASE a.t \in {"int", "bool"} -> a.n # 0
      [] a.t = "str" -> a.s # ""
      [] a.t = "none" -> FALSE
      [] OTHER -> TRUE

\* texts the element can show: "", "e", "er", "d"
Texts == {<<>>, <<"e">>, <<"e", "r">>, <<"d">>}
\* what one read of the element yields: a text, or no element (resolution
\* returned None / raised)
Absent == <<"<absent>">>
Observations == Texts \cup {Absent}
\* expected texts and stop-text lists used by the steps
ExpectedTexts == {<<"d">>}
StopSets == {{}, {<<"e", "r">>}}
\* step.get("no_of_attempts", ...) when the key is missing
NoKey == -1

\* str.__contains__: a occurs in b as a contiguous run
IsSubstring(a, b) ==
    \E i \in 0..(Len(b) - Len(a)) :
        \A k \in 1..Len(a) : b[i + k] = a[k]

(***************************************************************************)
(* Each specification below studies one operation of WebActions; the state *)
(* of the other operations is parked at these values.                      *)
(***************************************************************************)
IdleOrch ==
    /\ steps = <<>>
    /\ no_of_attempts = 0
    /\ initial_attempts = 0
    /\ raise_exception = FALSE
    /\ return_data = FALSE
    /\ data = None
    /\ break_flag = FALSE
    /\ pc = "idle"
    /\ idx = 0
    /\ result = [kind |-> "none", data |-> None, status |-> FALSE]
    /\ passes = 0
    /\ matched = [pass |-> 0, text |-> <<>>]
    /\ stopSeen = [pass |-> 0, text |-> <<>>]
    /\ lastObs = None
    /\ postPass = [stopped |-> FALSE, data |-> None]
    /\ o_max_wait_time = 0
    /\ o_initial_wait = 0
    /\ used_wait = [idx |-> 0, wait |-> 0]
    /\ dispatched = <<>>
    /\ sleeps = 0
    /\ validates = 0

IdleVal ==
    /\ v_feed = <<>>
    /\ v_text = <<>>
    /\ v_stop_texts = {}
    /\ v_no_of_attempts = 0
    /\ v_inst_raise = FALSE
    /\ v_attempts = 0
    /\ v_data = None
    /\ v_pc = "idle"
    /\ v_result = [kind |-> "none", data |-> None, status |-> FALSE]
    /\ v_reads = 0
    /\ v_resolves = 0
    /\ v_sleeps = 0

IdleClock == now = 0

IdleClick ==
    /\ c_max_wait_time = 0
    /\ c_inst_raise = FALSE
    /\ c_start = 0
    /\ c_pc = "idle"
    /\ c_result = "none"
    /\ c_clicked = FALSE
    /\ c_timed_out = FALSE
    /\ c_tries = 0
    /\ c_wait_start = -1
    /\ c_wait_budget = 0

IdleWait ==
    /\ w_op = "none"
    /\ w_timeout = 0
    /\ w_inst_raise = FALSE
    /\ w_max_wait_time = 0
    /\ w_start = 0
    /\ w_pc = "idle"
    /\ w_result = "none"
    /\ w_satisfied = FALSE
    /\ w_resolved = FALSE
    /\ w_confirmed = FALSE
    /\ w_change_polls = 0

IdleAct ==
    /\ a_action = "none"
    /\ a_inst_raise = FALSE
    /\ a_max_wait_time = 0
    /\ a_pc = "idle"
    /\ a_result = "none"
    /\ a_fault = "none"
    /\ a_ops = <<>>
    /\ a_resolutions = 0
    /\ a_found = FALSE

IdleChk ==
    /\ e_flag = FALSE
    /\ e_flag0 = FALSE
    /\ e_arg_raise = FALSE
    /\ e_original_flag = FALSE
    /\ e_max_wait_time = 0
    /\ e_pc = "idle"
    /\ e_elem = "none"
    /\ e_result = "none"
    /\ e_calls = 0

IdleRes ==
    /\ r_max_wait_time = 0
    /\ r_inst_raise = FALSE
    /\ r_start = 0
    /\ r_pc = "idle"
    /\ r_result = "none"
    /\ r_polls = 0

IdleSel ==
    /\ s_op = "none"
    /\ s_element = "none"
    /\ s_max_wait_time = 0
    /\ s_index = PyNone
    /\ s_visible_text = PyNone
    /\ s_value = PyNone
    /\ s_is_clickable = FALSE
    /\ s_name = PyNone
    /\ s_inst_raise = FALSE
    /\ s_pc = "idle"
    /\ s_result = "none"
    /\ s_resolutions = 0
    /\ s_invoked = <<>>
    /\ s_fault = "none"
    /\ s_message = <<>>

IdleDriver ==
    /\ d_driver = FALSE
    /\ d_pc = "idle"
    /\ d_calls = 0
    /\ d_quits = 0
    /\ d_result = "none"
    /\ d_caller = "none"
    /\ d_log = <<>>

IdleExcel ==
    /\ q_retries = 0
    /\ q_delay = 0
    /\ q_i = 0
    /\ q_pc = "idle"
    /\ q_log = <<>>
    /\ q_start = 0
    /\ q_result = "none"

IdleQuit == IdleExcel /\ IdleDriver

IdleThread ==
    /\ t_pc = "idle"
    /\ t_threads = 0
    /\ t_overlap = FALSE

IdleLeft ==
    /\ l_start = 0
    /\ l_timeout = 0
    /\ l_remaining = 0
    /\ l_prev = 0
    /\ l_read_at = 0
    /\ l_reads = 0
    /\ l_pc = "idle"

IdleFind ==
    /\ f_element = <<>>
    /\ f_inst_raise = FALSE
    /\ f_inst_raise0 = FALSE
    /\ f_result = "none"
    /\ f_prev = "none"
    /\ f_calls = 0

IdleConfig ==
    /\ g_config = <<>>
    /\ g_tag = "none"
    /\ g_write_to_console = FALSE
    /\ g_raise_error_on_not_found = FALSE
    /\ g_validate_existence = FALSE
    /\ g_if_none_return = "None"
    /\ g_pc = "idle"
    /\ g_result = [kind |-> "none", value |-> "None"]

IdleText ==
    /\ x_validate = FALSE
    /\ x_max_validation_attempts = 0
    /\ x_clear_text = FALSE
    /\ x_inst_raise = FALSE
    /\ x_attempts = 0
    /\ x_pc = "idle"
    /\ x_result = "none"
    /\ x_ops = <<>>
    /\ x_reads = <<>>
    /\ x_differed = FALSE
    /\ x_sleeps = 0

\* everything but the operation a specification studies
IdleLater == IdleAct /\ IdleChk /\ IdleRes /\ IdleSel /\ IdleQuit

(***************************************************************************)
(* validate_text: one trip round its loop body                             *)
(***************************************************************************)
\* a loop body that tests for the expected text before the stop texts
ValidateRead_MatchFirst(obs, text, stop_texts) ==
    IF obs = text THEN "match"
    ELSE IF stop_texts # {} /\ obs \in stop_texts THEN "stop"
    ELSE "retry"

\* lines 1085-1102: classify the text just read
ValidateRead(obs, text, stop_texts) ==
    IF stop_texts # {} /\ obs \in stop_texts THEN "stop"
    ELSE IF obs = text THEN "match"
    ELSE "retry"

\* a loop body that sleeps before it looks at what it read
ValidateSleeps_Always(verdict) == 1

\* lines 1086-1104: time.sleep(validation_wait_time) is reached only when
\* neither return was taken
ValidateSleeps(verdict) == IF verdict = "retry" THEN 1 ELSE 0

\* a validate_text that reports the text but never reports a match
ValidateTextOnce_NeverValid(obs, text, stop_texts) ==
    [data |-> Some(obs), status |-> FALSE]

\* validate_text(..., no_of_attempts=1) as called by the orchestrator, for an
\* element that resolved and showed obs: the Data it returns
ValidateTextOnce(obs, text, stop_texts) ==
    [data |-> Some(obs), status |-> ValidateRead(obs, text, stop_texts) = "match"]

(***************************************************************************)
(* repeat_steps_until_success                                              *)
(***************************************************************************)
StepKinds == {"click", "get_text", "validate_text"}

StepSet ==
    {s \in [action : StepKinds, text : ExpectedTexts, stop_texts : StopSets,
            no_of_attempts : {NoKey} \cup 0..MaxAttempts,
            max_wait_time : {NoKey}] : TRUE}

StepLists == UNION {[1..n -> StepSet] : n \in 1..MaxSteps}

NoResult == [kind |-> "none", data |-> None, status |-> FALSE]

\* a post-pass check that reports a stop when there is nothing to test
PostPassCheck_EmptyStops(d, stop_texts) ==
    IF stop_texts = {} THEN "true"
    ELSE IF d.none THEN "TypeError"
    ELSE IF \E st \in stop_texts : IsSubstring(d.text, st) THEN "true"
    ELSE "false"

\* lines 832-835: any(data in stop_text for stop_text in steps[-1].get("stop_texts", []))
\* "TypeError" when data is None and there is a stop text to test it against
PostPassCheck(d, stop_texts) ==
    IF stop_texts = {} THEN "false"
    ELSE IF d.none THEN "TypeError"
    ELSE IF \E st \in stop_texts : IsSubstring(d.text, st) THEN "true"
    ELSE "false"

\* a tail that forgets the `if not break_flag` branch
FinishResult_NoFailureBranch(flag, raise_exc, ret_data, d) ==
    IF ret_data THEN [kind |-> "Data", data |-> d, status |-> TRUE]
    ELSE [kind |-> "bool", data |-> None, status |-> TRUE]

\* lines 839-860: what the call hands back once the loop is left
FinishResult(flag, raise_exc, ret_data, d) ==
    IF ~flag
    THEN IF raise_exc THEN [kind |-> "OrchestrationFailed", data |-> None, status |-> FALSE]
         ELSE IF ret_data THEN [kind |-> "Data", data |-> d, status |-> FALSE]
         ELSE [kind |-> "bool", data |-> None, status |-> FALSE]
    ELSE IF ret_data THEN [kind |-> "Data", data |-> d, status |-> TRUE]
         ELSE [kind |-> "bool", data |-> None, status |-> TRUE]

\* a dispatch that leaves the shared counter alone
StepAttempts_Ignore(step, current) == current

\* lines 752-755
StepAttempts(step, current) ==
    IF step.no_of_attempts = NoKey THEN current ELSE step.no_of_attempts

\* line 46, in seconds
DEFAULT_WAIT_TIME == 300

\* line 751: max_wait_time = step.get("max_wait_time", max_wait_time)
StepWait(step, current) ==
    IF step.max_wait_time = NoKey THEN current ELSE step.max_wait_time

\* lines 756-827: the max_wait_time the step's method is called with.  The
\* get_text and switch_to_frame branches pass no max_wait_time, so the
\* method's own default applies; get_url waits for nothing.
WaitPassed(action, current) ==
    CASE action \in {"click", "validate_text"} -> current
      [] action = "get_text" -> DEFAULT_WAIT_TIME
      [] OTHER -> 0

\* the bookkeeping every dispatch shares: lines 751 and 756-827
Dispatching ==
    /\ o_max_wait_time' = StepWait(steps[idx], o_max_wait_time)
    /\ used_wait' = [idx |-> idx,
                     wait |-> WaitPassed(steps[idx].action, o_max_wait_time')]
    /\ dispatched' = Append(dispatched, idx)
    /\ UNCHANGED o_initial_wait

InitOrch ==
    /\ IdleVal /\ IdleClock /\ IdleClick /\ IdleWait /\ IdleLater
    /\ IdleThread
    /\ IdleLeft
    /\ IdleFind
    /\ IdleConfig
    /\ IdleText
    /\ steps \in StepLists
    /\ no_of_attempts \in 0..MaxAttempts
    /\ initial_attempts = no_of_attempts
    /\ raise_exception \in BOOLEAN
    /\ return_data \in BOOLEAN
    /\ data = None
    /\ break_flag = FALSE
    /\ pc = "while"
    /\ idx = 1
    /\ result = NoResult
    /\ passes = 0
    /\ matched = [pass |-> 0, text |-> <<>>]
    /\ stopSeen = [pass |-> 0, text |-> <<>>]
    /\ lastObs = None
    /\ postPass = [stopped |-> FALSE, data |-> None]
    /\ o_max_wait_time = DEFAULT_WAIT_TIME
    /\ o_initial_wait = o_max_wait_time
    /\ used_wait = [idx |-> 0, wait |-> 0]
    /\ dispatched = <<>>
    /\ sleeps = 0
    /\ validates = 0

\* line 749: the while test
WhileTest ==
    /\ UNCHANGED notOrch
    /\ pc = "while"
    /\ IF no_of_attempts > 0
       THEN /\ passes < MaxPasses
            /\ pc' = "step"
            /\ idx' = 1
            /\ passes' = passes + 1
            /\ dispatched' = <<>>
            /\ sleeps' = 0
       ELSE /\ pc' = "finish"
            /\ UNCHANGED <<idx, passes, dispatched, sleeps>>
    /\ UNCHANGED <<steps, no_of_attempts, initial_attempts, raise_exception,
                   return_data, data, break_flag, result, matched, stopSeen,
                   lastObs, postPass, o_max_wait_time, o_initial_wait,
                   used_wait, validates>>

\* a for loop that leaves the pass at a validate_text step
NextPc_CutShort ==
    IF idx = Len(steps) \/ steps[idx].action = "validate_text"
    THEN "endpass" ELSE "step"

\* after a step's body: line 828 and the for statement
NextPc == IF idx = Len(steps) THEN "endpass" ELSE "step"

\* lines 770-775: a click step; click() returns (clicked, or timed out in
\* suppressed mode) or lets an error escape
DispatchClick ==
    /\ UNCHANGED notOrch
    /\ pc = "step"
    /\ steps[idx].action = "click"
    /\ no_of_attempts' = StepAttempts(steps[idx], no_of_attempts)
    /\ \E outcome \in {"returns", "raises"} :
          IF outcome = "returns"
          THEN /\ pc' = NextPc
               /\ idx' = idx + 1
               /\ sleeps' = sleeps + 1
               /\ UNCHANGED result
          ELSE /\ pc' = "done"
               /\ result' = [kind |-> "ElementFault", data |-> None, status |-> FALSE]
               /\ UNCHANGED <<idx, sleeps>>
    /\ Dispatching
    /\ UNCHANGED <<steps, initial_attempts, raise_exception, return_data, data,
                   break_flag, passes, matched, stopSeen, lastObs, postPass,
                   validates>>

\* a read step that keeps what it fetched
ReadTextCaptured_Assign(d, fetched_text) == Some(fetched_text)

\* lines 810-813: get_text and get_url steps do not assign data; the value
\* they return is dropped
ReadTextCaptured(d, fetched_text) == d

\* lines 810-811: a get_text step; _perform_action swallows every error and
\* the text read is dropped
DispatchGetText ==
    /\ UNCHANGED notOrch
    /\ pc = "step"
    /\ steps[idx].action = "get_text"
    /\ no_of_attempts' = StepAttempts(steps[idx], no_of_attempts)
    /\ \E fetched_text \in Texts : data' = ReadTextCaptured(data, fetched_text)
    /\ pc' = NextPc
    /\ idx' = idx + 1
    /\ sleeps' = sleeps + 1
    /\ Dispatching
    /\ UNCHANGED <<steps, initial_attempts, raise_exception, return_data,
                   break_flag, result, passes, matched, stopSeen, lastObs,
                   postPass, validates>>

\* lines 814-827: a validate_text step
DispatchValidate ==
    /\ UNCHANGED notOrch
    /\ pc = "step"
    /\ steps[idx].action = "validate_text"
    /\ no_of_attempts' = StepAttempts(steps[idx], no_of_attempts)
    /\ \E obs \in Observations :
          IF obs = Absent
          THEN \* self.element.text on None, or WebElementNotFoundError
               /\ pc' = "done"
               /\ result' = [kind |-> "ElementFault", data |-> None, status |-> FALSE]
               /\ UNCHANGED <<idx, data, break_flag, matched, stopSeen, lastObs,
                              sleeps, validates>>
          ELSE LET is_valid_ == ValidateTextOnce(obs, steps[idx].text, steps[idx].stop_texts)
               IN /\ data' = is_valid_.data
                  /\ break_flag' = (break_flag \/ is_valid_.status)
                  /\ lastObs' = Some(obs)
                  /\ matched' = IF obs = steps[idx].text /\ obs \notin steps[idx].stop_texts
                                   /\ matched.pass = 0
                                THEN [pass |-> passes, text |-> obs] ELSE matched
                  /\ stopSeen' = IF obs \in steps[idx].stop_texts
                                 THEN [pass |-> passes, text |-> obs] ELSE stopSeen
                  /\ pc' = NextPc
                  /\ idx' = idx + 1
                  /\ sleeps' = sleeps + 1
                  /\ validates' = validates + 1
                  /\ UNCHANGED result
    /\ Dispatching
    /\ UNCHANGED <<steps, initial_attempts, raise_exception, return_data,
                   passes, postPass>>

\* lines 829-837: end of a pass
EndPass ==
    /\ UNCHANGED notOrch
    /\ pc = "endpass"
    /\ no_of_attempts' = no_of_attempts - 1
    /\ IF break_flag
       THEN /\ pc' = "finish"
            /\ UNCHANGED <<break_flag, result, postPass>>
       ELSE LET chk == PostPassCheck(data, steps[Len(steps)].stop_texts)
            IN CASE chk = "TypeError" ->
                      /\ pc' = "done"
                      /\ result' = [kind |-> "TypeError", data |-> None, status |-> FALSE]
                      /\ UNCHANGED <<break_flag, postPass>>
                 [] chk = "true" ->
                      /\ break_flag' = TRUE
                      /\ postPass' = [stopped |-> TRUE, data |-> data]
                      /\ pc' = "finish"
                      /\ UNCHANGED result
                 [] OTHER ->
                      /\ pc' = "while"
                      /\ UNCHANGED <<break_flag, result, postPass>>
    /\ UNCHANGED <<steps, initial_attempts, raise_exception, return_data, data,
                   idx, passes, matched, stopSeen, lastObs, o_max_wait_time,
                   o_initial_wait, used_wait, dispatched, sleeps,
                   validates>>

\* lines 839-860
Finish ==
    /\ UNCHANGED notOrch
    /\ pc = "finish"
    /\ result' = FinishResult(break_flag, raise_exception, return_data, data)
    /\ pc' = "done"
    /\ UNCHANGED <<steps, no_of_attempts, initial_attempts, raise_exception,
                   return_data, data, break_flag, idx, passes, matched,
                   stopSeen, lastObs, postPass, o_max_wait_time,
                   o_initial_wait, used_wait, dispatched, sleeps,
                   validates>>

NextOrch ==
    \/ WhileTest
    \/ DispatchClick
    \/ DispatchGetText
    \/ DispatchValidate
    \/ EndPass
    \/ Finish

SpecOrch == InitOrch /\ [][NextOrch]_vars

(***************************************************************************)
(* repeat_steps_until_success over step lists that carry max_wait_time     *)
(* overrides and get_url steps                                             *)
(***************************************************************************)
MaxStepWait == 2     \* largest max_wait_time argument / per-step override, in seconds

DispatchKinds == StepKinds \cup {"get_url"}

DispatchStepSet ==
    {s \in [action : DispatchKinds, text : ExpectedTexts, stop_texts : StopSets,
            no_of_attempts : {NoKey},
            max_wait_time : {NoKey} \cup 1..MaxStepWait] : TRUE}

DispatchStepLists == UNION {[1..n -> DispatchStepSet] : n \in 1..MaxSteps}

InitDispatch ==
    /\ IdleVal /\ IdleClock /\ IdleClick /\ IdleWait /\ IdleLater
    /\ IdleThread
    /\ IdleLeft
    /\ IdleFind
    /\ IdleConfig
    /\ IdleText
    /\ steps \in DispatchStepLists
    /\ no_of_attempts = MaxAttempts
    /\ initial_attempts = no_of_attempts
    /\ raise_exception \in BOOLEAN
    /\ return_data \in BOOLEAN
    /\ data = None
    /\ break_flag = FALSE
    /\ pc = "while"
    /\ idx = 1
    /\ result = NoResult
    /\ passes = 0
    /\ matched = [pass |-> 0, text |-> <<>>]
    /\ stopSeen = [pass |-> 0, text |-> <<>>]
    /\ lastObs = None
    /\ postPass = [stopped |-> FALSE, data |-> None]
    /\ o_max_wait_time \in 1..MaxStepWait
    /\ o_initial_wait = o_max_wait_time
    /\ used_wait = [idx |-> 0, wait |-> 0]
    /\ dispatched = <<>>
    /\ sleeps = 0
    /\ validates = 0

\* lines 812-813: a get_url step; get_current_url (1793-1797) reads
\* driver.current_url, which returns the URL or lets a driver error escape
DispatchGetUrl ==
    /\ UNCHANGED notOrch
    /\ pc = "step"
    /\ steps[idx].action = "get_url"
    /\ no_of_attempts' = StepAttempts(steps[idx], no_of_attempts)
    /\ \E outcome \in {"returns", "raises"} :
          IF outcome = "returns"
          THEN /\ \E url \in Texts : data' = ReadTextCaptured(data, url)
               /\ pc' = NextPc
               /\ idx' = idx + 1
               /\ sleeps' = sleeps + 1
               /\ UNCHANGED result
          ELSE /\ pc' = "done"
               /\ result' = [kind |-> "DriverFault", data |-> None, status |-> FALSE]
               /\ UNCHANGED <<idx, sleeps, data>>
    /\ Dispatching
    /\ UNCHANGED <<steps, initial_attempts, raise_exception, return_data,
                   break_flag, passes, matched, stopSeen, lastObs, postPass,
                   validates>>

NextDispatch ==
    \/ WhileTest
    \/ DispatchClick
    \/ DispatchGetText
    \/ DispatchGetUrl
    \/ DispatchValidate
    \/ EndPass
    \/ Finish

SpecDispatch == InitDispatch /\ [][NextDispatch]_vars

(***************************************************************************)
(* validate_text                                                           *)
(***************************************************************************)
\* stop-text lists handed to validate_text; the last one holds the expected
\* text itself
ValStopSets == {{}, {<<"e", "r">>}, {<<"d">>, <<"e", "r">>}}

InitValidate ==
    /\ IdleOrch /\ IdleClock /\ IdleClick /\ IdleWait /\ IdleLater
    /\ IdleThread
    /\ IdleLeft
    /\ IdleFind
    /\ IdleConfig
    /\ IdleText
    /\ v_feed \in [1..MaxValAttempts -> Observations]
    /\ v_text \in ExpectedTexts
    /\ v_stop_texts \in ValStopSets
    /\ v_no_of_attempts \in 0..MaxValAttempts
    /\ v_inst_raise \in BOOLEAN
    /\ v_attempts = 0
    /\ v_data = None
    /\ v_pc = "loop"
    /\ v_result = [kind |-> "none", data |-> None, status |-> FALSE]
    /\ v_reads = 0
    /\ v_resolves = 0
    /\ v_sleeps = 0

\* lines 1082-1104: one attempt; the element does not resolve.  In
\* suppressed mode _get_element_if_exist returns None and line 1084 reads
\* .text of None; in escalated mode it raises WebElementNotFoundError.
ValidateAttemptAbsent ==
    /\ UNCHANGED notVal
    /\ v_pc = "loop"
    /\ v_attempts < v_no_of_attempts
    /\ v_feed[v_attempts + 1] = Absent
    /\ v_result' = [kind |-> IF v_inst_raise THEN "WebElementNotFoundError"
                             ELSE "AttributeError",
                    data |-> None, status |-> FALSE]
    /\ v_pc' = "done"
    /\ v_resolves' = v_resolves + 1
    /\ UNCHANGED <<v_feed, v_text, v_stop_texts, v_no_of_attempts, v_inst_raise,
                   v_attempts, v_data, v_reads, v_sleeps>>

\* lines 1082-1104: one attempt; the element resolves and its text is read.
\* Lines 1084-1086 fetch the text property up to three times in a row; driver
\* calls take no time here, so the fetches of one attempt see one text and
\* count as one read.
ValidateAttempt ==
    /\ UNCHANGED notVal
    /\ v_pc = "loop"
    /\ v_attempts < v_no_of_attempts
    /\ v_feed[v_attempts + 1] # Absent
    /\ LET obs == v_feed[v_attempts + 1]
           verdict == ValidateRead(obs, v_text, v_stop_texts)
       IN /\ v_data' = Some(obs)
          /\ v_resolves' = v_resolves + 1
          /\ v_reads' = v_reads + 1
          /\ v_sleeps' = v_sleeps + ValidateSleeps(verdict)
          /\ IF verdict = "retry"
             THEN /\ v_attempts' = v_attempts + 1
                  /\ UNCHANGED <<v_pc, v_result>>
             ELSE /\ v_result' = [kind |-> "Data", data |-> Some(obs),
                                  status |-> (verdict = "match")]
                  /\ v_pc' = "done"
                  /\ UNCHANGED v_attempts
    /\ UNCHANGED <<v_feed, v_text, v_stop_texts, v_no_of_attempts, v_inst_raise>>

\* lines 1105-1111: the attempts are used up
ValidateExhausted ==
    /\ UNCHANGED notVal
    /\ v_pc = "loop"
    /\ v_attempts >= v_no_of_attempts
    /\ v_result' = [kind |-> "Data", data |-> v_data, status |-> FALSE]
    /\ v_pc' = "done"
    /\ UNCHANGED <<v_feed, v_text, v_stop_texts, v_no_of_attempts, v_inst_raise,
                   v_attempts, v_data, v_reads, v_resolves, v_sleeps>>

NextValidate ==
    \/ ValidateAttemptAbsent
    \/ ValidateAttempt
    \/ ValidateExhausted

SpecValidate == InitValidate /\ [][NextValidate]_vars

(***************************************************************************)
(* Time budget and element resolution                                      *)
(***************************************************************************)
\* poll_frequency=0.25 is one tick; time.sleep(0.25) is one tick
PollTicks == 1
TicksPerSecond == 4

Max(a, b) == IF a >= b THEN a ELSE b

\* a remaining time that is not clamped at 0
TimeLeft_Unclamped(start, timeout, t) == timeout - (t - start)

\* _time_left(start, timeout), read when the clock shows t
TimeLeft(start, timeout, t) == Max(0, timeout - (t - start))

\* WebDriverWait(driver, timeout, poll_frequency=0.25).until(cond): the
\* condition is tried at once and then after every poll; the wait gives up
\* after the first poll that ends past the timeout.  A wait whose timeout is
\* a whole number of polls gives up on that poll or on the next one.
WaitUntil(timeout) ==
    {[found |-> TRUE, elapsed |-> e] : e \in 0..timeout} \cup
    {[found |-> FALSE, elapsed |-> e] : e \in {Max(PollTicks, timeout), timeout + PollTicks}}

\* a helper without the early abort of lines 242-243: a spent budget still
\* starts a wait
ResolveOutcomes_NoEarlyAbort(max_wait_time, inst_raise) ==
    LET remaining == TimeLeft(0, max_wait_time, 0)
        miss == IF inst_raise THEN "raise" ELSE "none"
    IN {[res |-> IF w.found THEN "found" ELSE miss, elapsed |-> w.elapsed] :
           w \in WaitUntil(remaining)}

\* _get_element_if_exist(element, max_wait_time) with max_wait_time in ticks
ResolveOutcomes(max_wait_time, inst_raise) ==
    LET remaining == TimeLeft(0, max_wait_time, 0)
        miss == IF inst_raise THEN "raise" ELSE "none"
    IN IF remaining = 0
       THEN {[res |-> miss, elapsed |-> 0]}
       ELSE {[res |-> IF w.found THEN "found" ELSE miss, elapsed |-> w.elapsed] :
                w \in WaitUntil(remaining)}

(***************************************************************************)
(* click                                                                   *)
(***************************************************************************)
\* a retry that waits the whole max_wait_time again
ClickWaitBudget_PerIteration(start, max_wait_time, t) == max_wait_time

\* line 630: the timeout handed to the wait of one attempt
ClickWaitBudget(start, max_wait_time, t) == TimeLeft(start, max_wait_time, t)

\* a tail that never raises
ClickTimedOutResult_NeverRaise(inst_raise) == "returned"

\* lines 652-655: what click does once the loop is left without a click
ClickTimedOutResult(inst_raise) ==
    IF inst_raise THEN "WebElementNotFoundError" ELSE "returned"

InitClick ==
    /\ IdleOrch /\ IdleVal /\ IdleWait /\ IdleLater
    /\ IdleThread
    /\ IdleLeft
    /\ IdleFind
    /\ IdleConfig
    /\ IdleText
    /\ now \in 0..MaxStart
    /\ c_max_wait_time \in 0..MaxClickWait
    /\ c_inst_raise \in BOOLEAN
    /\ c_start = now
    /\ c_pc = "loop"
    /\ c_result = "none"
    /\ c_clicked = FALSE
    /\ c_timed_out = FALSE
    /\ c_tries = 0
    /\ c_wait_start = -1
    /\ c_wait_budget = 0

\* lines 628-650: one trip round the loop: wait for the element to be
\* clickable, click it
ClickAttempt ==
    /\ UNCHANGED notClick
    /\ c_pc = "loop"
    /\ TimeLeft(c_start, c_max_wait_time, now) > 0
    /\ LET remaining == ClickWaitBudget(c_start, c_max_wait_time, now)
       IN /\ c_wait_start' = now
          /\ c_wait_budget' = remaining
          /\ c_tries' = c_tries + 1
          /\ \E w \in WaitUntil(remaining) :
                IF ~w.found
                THEN \* TimeoutException: break
                     /\ now' = now + w.elapsed
                     /\ c_pc' = "after"
                     /\ c_timed_out' = TRUE
                     /\ UNCHANGED <<c_result, c_clicked>>
                ELSE \E fault \in {"none", "intercepted", "stale", "other"} :
                     CASE fault = "none" ->
                            /\ now' = now + w.elapsed
                            /\ c_clicked' = TRUE
                            /\ c_result' = "returned"
                            /\ c_pc' = "done"
                            /\ UNCHANGED c_timed_out
                       [] fault \in {"intercepted", "stale"} ->
                            /\ now' = now + w.elapsed + PollTicks
                            /\ UNCHANGED <<c_pc, c_result, c_clicked, c_timed_out>>
                       [] OTHER ->
                            \* any other error of elem.click() leaves click
                            /\ now' = now + w.elapsed
                            /\ c_result' = "OtherError"
                            /\ c_pc' = "done"
                            /\ UNCHANGED <<c_clicked, c_timed_out>>
    /\ UNCHANGED <<c_max_wait_time, c_inst_raise, c_start>>

\* line 628: no time is left
ClickLoopExit ==
    /\ UNCHANGED notClick
    /\ c_pc = "loop"
    /\ TimeLeft(c_start, c_max_wait_time, now) = 0
    /\ c_pc' = "after"
    /\ c_timed_out' = TRUE
    /\ UNCHANGED <<now, c_max_wait_time, c_inst_raise, c_start, c_result,
                   c_clicked, c_tries, c_wait_start, c_wait_budget>>

\* lines 652-655
ClickAfterLoop ==
    /\ UNCHANGED notClick
    /\ c_pc = "after"
    /\ c_result' = ClickTimedOutResult(c_inst_raise)
    /\ c_pc' = "done"
    /\ UNCHANGED <<now, c_max_wait_time, c_inst_raise, c_start, c_clicked,
                   c_timed_out, c_tries, c_wait_start, c_wait_budget>>

NextClick ==
    \/ ClickAttempt
    \/ ClickLoopExit
    \/ ClickAfterLoop

SpecClick == InitClick /\ [][NextClick]_vars

(***************************************************************************)
(* wait_until_text_matches and wait_until_element_text_changes             *)
(***************************************************************************)
\* time.sleep(1)
SleepOneSecond == TicksPerSecond

InitWait ==
    /\ IdleOrch /\ IdleVal /\ IdleClick /\ IdleLater
    /\ IdleThread
    /\ IdleLeft
    /\ IdleFind
    /\ IdleConfig
    /\ IdleText
    /\ now \in 0..MaxStart
    /\ w_op \in {"matches", "changes"}
    /\ w_timeout \in 0..MaxWaitSeconds
    /\ w_inst_raise \in BOOLEAN
    /\ w_max_wait_time = w_timeout
    /\ w_start = now
    /\ w_pc = "match"
    /\ w_result = "none"
    /\ w_satisfied = FALSE
    /\ w_resolved = FALSE
    /\ w_confirmed = FALSE
    /\ w_change_polls = 0

\* a wait that goes on to its second phase whatever the first one found
PhaseAfterMatch_Always(is_matched) == "change"

\* lines 895-899: `if not is_matched: return`, else on to the second loop
PhaseAfterMatch(is_matched) == IF is_matched THEN "change" ELSE "done"

\* lines 964-972: one trip round the loop of wait_until_text_matches (called
\* directly, or as the first phase of wait_until_element_text_changes)
WaitMatchIteration ==
    /\ UNCHANGED notWait
    /\ w_pc = "match"
    /\ w_max_wait_time > 0
    /\ \E o \in ResolveOutcomes(w_max_wait_time * TicksPerSecond, w_inst_raise) :
          /\ w_resolved' = (w_resolved \/ o.res = "found")
          /\ CASE o.res = "raise" ->
                    /\ now' = now + o.elapsed
                    /\ w_result' = "WebElementNotFoundError"
                    /\ w_pc' = "done"
                    /\ UNCHANGED <<w_max_wait_time, w_satisfied, w_confirmed>>
               [] o.res = "none" ->
                    /\ now' = now + o.elapsed + SleepOneSecond
                    /\ w_max_wait_time' = w_max_wait_time - 1
                    /\ UNCHANGED <<w_pc, w_result, w_satisfied, w_confirmed>>
               [] OTHER ->
                    \E text_matches \in BOOLEAN :
                       IF text_matches
                       THEN \* return True; lines 895-899 go on to the second
                            \* phase with the caller's own max_wait_time
                            /\ now' = now + o.elapsed
                            /\ w_confirmed' = TRUE
                            /\ IF w_op = "matches"
                               THEN /\ w_result' = "True"
                                    /\ w_pc' = "done"
                                    /\ w_satisfied' = TRUE
                                    /\ UNCHANGED w_max_wait_time
                               ELSE /\ w_pc' = PhaseAfterMatch(TRUE)
                                    /\ w_max_wait_time' = w_timeout
                                    /\ UNCHANGED <<w_result, w_satisfied>>
                       ELSE /\ now' = now + o.elapsed + SleepOneSecond
                            /\ w_max_wait_time' = w_max_wait_time - 1
                            /\ UNCHANGED <<w_pc, w_result, w_satisfied,
                                           w_confirmed>>
    /\ UNCHANGED <<w_op, w_timeout, w_inst_raise, w_start, w_change_polls>>

\* lines 973-974 (and 895-897 in wait_until_element_text_changes)
WaitMatchExhausted ==
    /\ UNCHANGED notWait
    /\ w_pc = "match"
    /\ w_max_wait_time <= 0
    /\ IF w_op = "matches"
       THEN /\ w_result' = "False"
            /\ w_pc' = "done"
            /\ UNCHANGED w_max_wait_time
       ELSE /\ w_pc' = PhaseAfterMatch(FALSE)
            /\ w_result' = (IF w_pc' = "done" THEN "returned" ELSE w_result)
            /\ w_max_wait_time' = (IF w_pc' = "done" THEN w_max_wait_time
                                   ELSE w_timeout)
    /\ UNCHANGED <<now, w_op, w_timeout, w_inst_raise, w_start, w_satisfied,
                   w_resolved, w_confirmed, w_change_polls>>

\* lines 899-906: one trip round the second loop of
\* wait_until_element_text_changes
WaitChangeIteration ==
    /\ UNCHANGED notWait
    /\ w_pc = "change"
    /\ w_max_wait_time > 0
    /\ w_change_polls' = w_change_polls + 1
    /\ \E o \in ResolveOutcomes(w_max_wait_time * TicksPerSecond, w_inst_raise) :
          /\ w_resolved' = (w_resolved \/ o.res = "found")
          /\ CASE o.res = "raise" ->
                    /\ now' = now + o.elapsed
                    /\ w_result' = "WebElementNotFoundError"
                    /\ w_pc' = "done"
                    /\ UNCHANGED <<w_max_wait_time, w_satisfied>>
               [] o.res = "none" ->
                    \* line 903 reads .text of None
                    /\ now' = now + o.elapsed
                    /\ w_result' = "AttributeError"
                    /\ w_pc' = "done"
                    /\ UNCHANGED <<w_max_wait_time, w_satisfied>>
               [] OTHER ->
                    \E text_differs \in BOOLEAN :
                       IF text_differs
                       THEN /\ now' = now + o.elapsed
                            /\ w_result' = "returned"
                            /\ w_pc' = "done"
                            /\ w_satisfied' = TRUE
                            /\ UNCHANGED w_max_wait_time
                       ELSE /\ now' = now + o.elapsed + SleepOneSecond
                            /\ w_max_wait_time' = w_max_wait_time - 1
                            /\ UNCHANGED <<w_pc, w_result, w_satisfied>>
    /\ UNCHANGED <<w_op, w_timeout, w_inst_raise, w_start, w_confirmed>>

\* lines 899, 907: the countdown of the second loop is used up
WaitChangeExhausted ==
    /\ UNCHANGED notWait
    /\ w_pc = "change"
    /\ w_max_wait_time <= 0
    /\ w_result' = "returned"
    /\ w_pc' = "done"
    /\ UNCHANGED <<now, w_op, w_timeout, w_inst_raise, w_max_wait_time,
                   w_start, w_satisfied, w_resolved, w_confirmed,
                   w_change_polls>>

NextWait ==
    \/ WaitMatchIteration
    \/ WaitMatchExhausted
    \/ WaitChangeIteration
    \/ WaitChangeExhausted

SpecWait == InitWait /\ [][NextWait]_vars

(***************************************************************************)
(* _perform_action, behind set_text, set_text_enter, switch_to_frame and   *)
(* get_text                                                                *)
(***************************************************************************)
MaxActionWait == 2   \* largest max_wait_time handed to an action, in ticks

ActionKinds == {"set_text", "set_text_enter", "switch_to_frame", "get_text"}

\* a set_text that types into the field without clearing it
ActionOps_NoClear(action) ==
    CASE action = "set_text" -> <<"send_keys">>
      [] action = "set_text_enter" -> <<"send_keys_enter">>
      [] action = "switch_to_frame" -> <<"switch_to_frame">>
      [] action = "get_text" -> <<"text">>

\* lines 591-602: the calls an action makes on the element it resolved
ActionOps(action) ==
    CASE action = "set_text" -> <<"clear", "send_keys">>
      [] action = "set_text_enter" -> <<"clear", "send_keys_enter">>
      [] action = "switch_to_frame" -> <<"switch_to_frame">>
      [] action = "get_text" -> <<"text">>

\* lines 594 and 597: the keys a call on the element sends, in order
KeysSent(op) ==
    CASE op = "send_keys" -> <<"text">>
      [] op = "send_keys_enter" -> <<"text", "ENTER">>
      [] OTHER -> <<>>

\* lines 603-612: the handler of _perform_action logs and falls off the end,
\* whatever the error and whatever self.raise_exception
PerformActionOutcome(fault, inst_raise) == "returned"

InitAction ==
    /\ IdleOrch /\ IdleVal /\ IdleClick /\ IdleWait
    /\ IdleChk /\ IdleRes /\ IdleSel /\ IdleQuit
    /\ IdleThread
    /\ IdleLeft
    /\ IdleFind
    /\ IdleConfig
    /\ IdleText
    /\ now \in 0..MaxStart
    /\ a_action \in ActionKinds
    /\ a_inst_raise \in BOOLEAN
    /\ a_max_wait_time \in 0..MaxActionWait
    /\ a_pc = "resolve"
    /\ a_result = "none"
    /\ a_fault = "none"
    /\ a_ops = <<>>
    /\ a_resolutions = 0
    /\ a_found = FALSE

\* line 589: resolve the element
ActionResolve ==
    /\ UNCHANGED notAct
    /\ a_pc = "resolve"
    /\ a_resolutions' = a_resolutions + 1
    /\ \E o \in ResolveOutcomes(a_max_wait_time, a_inst_raise) :
          /\ now' = now + o.elapsed
          /\ a_found' = (o.res = "found")
          /\ CASE o.res = "found" ->
                    /\ a_pc' = "act"
                    /\ UNCHANGED <<a_result, a_fault>>
               [] o.res = "none" ->
                    \* line 590: nothing to act on
                    /\ a_pc' = "done"
                    /\ a_result' = "returned"
                    /\ UNCHANGED a_fault
               [] OTHER ->
                    \* WebElementNotFoundError, raised inside the try
                    /\ a_pc' = "done"
                    /\ a_fault' = "WebElementNotFoundError"
                    /\ a_result' = PerformActionOutcome("WebElementNotFoundError", a_inst_raise)
    /\ UNCHANGED <<a_action, a_inst_raise, a_max_wait_time, a_ops>>

\* lines 591-602: the calls on the element; fail_at = 0 when every call
\* succeeds, else the position of the call that raises
ActionAct ==
    /\ UNCHANGED notAct
    /\ a_pc = "act"
    /\ \E fail_at \in 0..Len(ActionOps(a_action)) :
          IF fail_at = 0
          THEN /\ a_ops' = ActionOps(a_action)
               /\ a_result' = "returned"
               /\ UNCHANGED a_fault
          ELSE /\ a_ops' = SubSeq(ActionOps(a_action), 1, fail_at)
               /\ a_fault' = "ElementError"
               /\ a_result' = PerformActionOutcome("ElementError", a_inst_raise)
    /\ a_pc' = "done"
    /\ UNCHANGED <<now, a_action, a_inst_raise, a_max_wait_time, a_resolutions,
                   a_found>>

NextAction ==
    \/ ActionResolve
    \/ ActionAct

SpecAction == InitAction /\ [][NextAction]_vars

(***************************************************************************)
(* check_element_exist                                                     *)
(***************************************************************************)
MaxCheckWait == 1    \* largest max_wait_time handed to check_element_exist, in ticks
MaxCalls == 2        \* calls of check_element_exist made in a row

\* a call that leaves the instance flag as it finds it
InsideFlag_Unchanged(original_flag) == original_flag

\* line 289: self.raise_exception while the helper runs
InsideFlag(original_flag) == FALSE

\* a finally block that restores nothing
RestoreFlag_Keep(original_flag, current) == current

\* lines 298-301: self.raise_exception after the finally block
RestoreFlag(original_flag, current) == original_flag

\* lines 303-313: the tail of the call, for an element found or not
CheckResult(elem, arg_raise) ==
    IF elem = "found" THEN "element"
    ELSE IF arg_raise THEN "WebElementNotFoundError"
    ELSE "None"

InitCheck ==
    /\ IdleOrch /\ IdleVal /\ IdleClick /\ IdleWait
    /\ IdleAct /\ IdleRes /\ IdleSel /\ IdleQuit
    /\ IdleThread
    /\ IdleLeft
    /\ IdleFind
    /\ IdleConfig
    /\ IdleText
    /\ now = 0
    /\ e_flag \in BOOLEAN
    /\ e_flag0 = e_flag
    /\ e_arg_raise = FALSE
    /\ e_original_flag = FALSE
    /\ e_max_wait_time = 0
    /\ e_pc = "ready"
    /\ e_elem = "none"
    /\ e_result = "none"
    /\ e_calls = 0

\* lines 287-289: a call begins, saves the flag and suppresses it
CheckCall ==
    /\ UNCHANGED notChk
    /\ e_pc = "ready"
    /\ e_calls < MaxCalls
    /\ e_arg_raise' \in BOOLEAN
    /\ e_max_wait_time' \in 0..MaxCheckWait
    /\ e_original_flag' = e_flag
    /\ e_flag' = InsideFlag(e_flag)
    /\ e_calls' = e_calls + 1
    /\ e_pc' = "resolve"
    /\ e_elem' = "none"
    /\ e_result' = "none"
    /\ UNCHANGED <<now, e_flag0>>

\* lines 291-297: the helper runs under the flag as it now is
CheckResolve ==
    /\ UNCHANGED notChk
    /\ e_pc = "resolve"
    /\ \/ \E o \in ResolveOutcomes(e_max_wait_time, e_flag) :
             /\ now' = now + o.elapsed
             /\ e_elem' = o.res
       \/ \* an error that `except Exception` does not catch
          /\ e_elem' = "KeyboardInterrupt"
          /\ UNCHANGED now
    /\ e_pc' = "finally"
    /\ UNCHANGED <<e_flag, e_flag0, e_arg_raise, e_original_flag,
                   e_max_wait_time, e_result, e_calls>>

\* lines 298-301: the finally block; an error of the helper goes on to the
\* caller after it
CheckFinally ==
    /\ UNCHANGED notChk
    /\ e_pc = "finally"
    /\ e_flag' = RestoreFlag(e_original_flag, e_flag)
    /\ IF e_elem \in {"found", "none"}
       THEN /\ e_pc' = "tail"
            /\ UNCHANGED e_result
       ELSE /\ e_pc' = "ready"
            /\ e_result' = (IF e_elem = "raise" THEN "WebElementNotFoundError"
                            ELSE e_elem)
    /\ UNCHANGED <<now, e_flag0, e_arg_raise, e_original_flag,
                   e_max_wait_time, e_elem, e_calls>>

\* lines 303-313
CheckReturn ==
    /\ UNCHANGED notChk
    /\ e_pc = "tail"
    /\ e_result' = CheckResult(e_elem, e_arg_raise)
    /\ e_pc' = "ready"
    /\ UNCHANGED <<now, e_flag, e_flag0, e_arg_raise, e_original_flag,
                   e_max_wait_time, e_elem, e_calls>>

NextCheck ==
    \/ CheckCall
    \/ CheckResolve
    \/ CheckFinally
    \/ CheckReturn

SpecCheck == InitCheck /\ [][NextCheck]_vars

(***************************************************************************)
(* _get_element_if_exist                                                   *)
(***************************************************************************)
MaxResolveWait == 8  \* largest max_wait_time handed to the helper, in ticks

\* times the condition was tried in a WebDriverWait that ended as o: once
\* at the start and once after every poll slept through; a wait that gives
\* up ends on a sleep, a wait that finds ends on a try
PollsMade(o) == IF o.res = "found" THEN o.elapsed + 1 ELSE o.elapsed

InitResolve ==
    /\ IdleOrch /\ IdleVal /\ IdleClick /\ IdleWait
    /\ IdleAct /\ IdleChk /\ IdleSel /\ IdleQuit
    /\ IdleThread
    /\ IdleLeft
    /\ IdleFind
    /\ IdleConfig
    /\ IdleText
    /\ now \in 0..MaxStart
    /\ r_max_wait_time \in 0..MaxResolveWait
    /\ r_inst_raise \in BOOLEAN
    /\ r_start = now
    /\ r_pc = "call"
    /\ r_result = "none"
    /\ r_polls = 0

\* lines 232-256: one call of the helper
Resolve ==
    /\ UNCHANGED notRes
    /\ r_pc = "call"
    /\ \E o \in ResolveOutcomes(r_max_wait_time, r_inst_raise) :
          /\ now' = now + o.elapsed
          /\ r_polls' = PollsMade(o)
          /\ r_result' = (CASE o.res = "found" -> "element"
                            [] o.res = "none" -> "None"
                            [] OTHER -> "WebElementNotFoundError")
    /\ r_pc' = "done"
    /\ UNCHANGED <<r_max_wait_time, r_inst_raise, r_start>>

NextResolve == Resolve

SpecResolve == InitResolve /\ [][NextResolve]_vars

(***************************************************************************)
(* select_element / deselect_element and _perform_selection_action         *)
(***************************************************************************)
MaxIndex == 2       \* largest option index passed
MaxSelectWait == 2  \* largest max_wait_time passed, in seconds

Locators == {"country", "//select"}
Labels == {"", "country", "US"}
SelectOps == {"select_element", "deselect_element"}

\* str(n) for the one-digit numbers of the model
IntText(n) == <<"0", "1", "2", "3", "4", "5", "6", "7", "8", "9">>[n + 1]

\* what an f-string puts for {a}
PyFormat(a) ==
    CASE a.t = "int" -> IntText(a.n)
      [] a.t = "bool" -> (IF a.n = 1 THEN "True" ELSE "False")
      [] a.t = "none" -> "None"
      [] OTHER -> a.s

\* lines 1341 and 1385: not any([index, visible_text, value])
ParameterMissing(index, visible_text, value) ==
    ~(PyTruthy(index) \/ PyTruthy(visible_text) \/ PyTruthy(value))

\* action.removesuffix("_element")
RemoveSuffixElement(action) ==
    CASE action = "select_element" -> "select"
      [] action = "deselect_element" -> "deselect"
      [] OTHER -> action

\* locals() at lines 532-534, in the order of the frame, up to the last
\* parameter; the names bound later in the body come after these, and the
\* option looked up is itself one of index, visible_text and value
SelectionLocals(element, action, max_wait_time, index, visible_text, value, is_clickable, name) ==
    << <<"self", PyObj("self")>>,
       <<"element", PyStr(element)>>,
       <<"action", PyStr(action)>>,
       <<"max_wait_time", PyInt(max_wait_time)>>,
       <<"index", index>>,
       <<"visible_text", visible_text>>,
       <<"value", value>>,
       <<"is_clickable", PyBool(is_clickable)>>,
       <<"name", name>> >>

\* [i for i, a in locals().items() if a == available_option][0]
FirstLocalEqual(locs, available_option) ==
    LET hits == {k \in 1..Len(locs) : PyEq(locs[k][2], available_option)}
        first == CHOOSE k \in hits : \A j \in hits : k <= j
    IN locs[first][1]

\* the name of the parameter the option was passed in
KindOf(k) == <<"index", "visible_text", "value">>[k]

\* lines 531-534
SelectionMethod(action, locs, k, available_option) ==
    RemoveSuffixElement(action) \o "_by_" \o FirstLocalEqual(locs, available_option)

\* lines 522-539: the loop over [index, visible_text, value]; the last
\* option that is not None decides
SelectionParams(element, action, max_wait_time, index, visible_text, value, is_clickable, name) ==
    LET opts == <<index, visible_text, value>>
        locs == SelectionLocals(element, action, max_wait_time, index,
                                visible_text, value, is_clickable, name)
        given == {k \in 1..3 : opts[k] # PyNone}
        last == CHOOSE k \in given : \A j \in given : j <= k
    IN IF given = {}
       THEN [method |-> "", value |-> PyStr("")]
       ELSE [method |-> SelectionMethod(action, locs, last, opts[last]),
             value |-> opts[last]]

\* the methods of selenium's Select that the dispatcher can name
SelectMethods ==
    {p \o "_by_" \o k : p \in {"select", "deselect"},
                        k \in {"index", "visible_text", "value"}}

\* what getattr(select_element, method)(value) can raise
PrimitiveFaults(method) ==
    IF method \notin SelectMethods
    THEN {"AttributeError"}
    ELSE {"none", "NoSuchElementException"}
         \cup (IF method \in {"deselect_by_index", "deselect_by_visible_text",
                              "deselect_by_value"}
               THEN {"NotImplementedError"} ELSE {})

\* a handler that lets the primitive's own error through
SelectionOutcome_Passthrough(fault) ==
    IF fault = "none" THEN "returned" ELSE fault

\* lines 540-565: except Exception raises SelectionNotFoundError
SelectionOutcome(fault) ==
    IF fault = "none" THEN "returned" ELSE "SelectionNotFoundError"

\* lines 555-559
ExceptionMessage(action, element, params) ==
    <<"desired ", RemoveSuffixElement(action), "ion on the element \"",
      element, "\" ", params.method, " \"", PyFormat(params.value),
      "\" not available">>

InitSelect ==
    /\ IdleOrch /\ IdleVal /\ IdleClock /\ IdleClick /\ IdleWait
    /\ IdleAct /\ IdleChk /\ IdleRes /\ IdleQuit
    /\ IdleThread
    /\ IdleLeft
    /\ IdleFind
    /\ IdleConfig
    /\ IdleText
    /\ s_op \in SelectOps
    /\ s_element \in Locators
    /\ s_max_wait_time \in 0..MaxSelectWait
    /\ s_index \in {PyNone} \cup {PyInt(n) : n \in 0..MaxIndex}
    /\ s_visible_text \in {PyNone} \cup {PyStr(l) : l \in Labels}
    /\ s_value \in {PyNone} \cup {PyStr(l) : l \in Labels}
    /\ s_is_clickable \in BOOLEAN
    /\ s_name \in {PyNone, PyStr("Country")}
    /\ s_inst_raise \in BOOLEAN
    /\ s_pc = "call"
    /\ s_result = "none"
    /\ s_resolutions = 0
    /\ s_invoked = <<>>
    /\ s_fault = "none"
    /\ s_message = <<>>

selArgs == <<s_op, s_element, s_max_wait_time, s_index, s_visible_text,
             s_value, s_is_clickable, s_name, s_inst_raise>>

\* lines 1338-1350 and 1382-1394: the guard on the three parameters
SelectCall ==
    /\ UNCHANGED notSel
    /\ s_pc = "call"
    /\ IF ParameterMissing(s_index, s_visible_text, s_value)
       THEN s_pc' = "done" /\ s_result' = "ParameterMissingError"
       ELSE s_pc' = "resolve" /\ UNCHANGED s_result
    /\ UNCHANGED <<selArgs, s_resolutions, s_invoked, s_fault, s_message>>

\* a dispatcher that reports the element it did not get
MissingElementResult_Raise == "WebElementNotFoundError"

\* line 521: `if self.element:` has no else branch, the method falls off
\* its end and select_element / deselect_element return after it
MissingElementResult == "returned"

\* lines 515-520 and the test of line 521
SelectResolve ==
    /\ UNCHANGED notSel
    /\ s_pc = "resolve"
    /\ s_resolutions' = s_resolutions + 1
    /\ \E o \in ResolveOutcomes(s_max_wait_time * TicksPerSecond, s_inst_raise) :
          CASE o.res = "found" -> s_pc' = "invoke" /\ UNCHANGED s_result
            [] o.res = "none" -> s_pc' = "done" /\ s_result' = MissingElementResult
            [] OTHER -> s_pc' = "done" /\ s_result' = "WebElementNotFoundError"
    /\ UNCHANGED <<selArgs, s_invoked, s_fault, s_message>>

\* lines 522-565: build the method name, call it, convert its failure
SelectInvoke ==
    /\ UNCHANGED notSel
    /\ s_pc = "invoke"
    /\ LET params == SelectionParams(s_element, s_op, s_max_wait_time, s_index,
                                     s_visible_text, s_value, s_is_clickable,
                                     s_name)
       IN /\ s_invoked' = Append(s_invoked, params)
          /\ \E fault \in PrimitiveFaults(params.method) :
                /\ s_fault' = fault
                /\ s_result' = SelectionOutcome(fault)
                /\ s_message' = IF fault = "none" THEN <<>>
                                ELSE ExceptionMessage(s_op, s_element, params)
    /\ s_pc' = "done"
    /\ UNCHANGED <<selArgs, s_resolutions>>

NextSelect == SelectCall \/ SelectResolve \/ SelectInvoke

SpecSelect == InitSelect /\ [][NextSelect]_vars

(***************************************************************************)
(* ExcelAutomation.quit and WebActions.quit                                *)
(***************************************************************************)
MaxRetries == 3    \* largest retries passed to ExcelAutomation.quit
MaxDelay == 2      \* largest delay passed, in seconds
MaxQuitCalls == 3  \* calls of WebActions.quit on one instance

\* what self.excel.Quit() can do: return, raise the com_error whose
\* strerror is the busy text, raise another com_error, or raise an error
\* that is not a com_error
QuitResponses == {"ok", "busy", "com_error", "exception"}

\* the calls one trip round the loop makes, in order
QuitEvents(response) ==
    CASE response = "ok" -> <<"Quit:ok">>
      [] response = "busy" -> <<"Quit:busy", "sleep">>
      [] response = "com_error" -> <<"Quit:com_error", "getlogin", "taskkill">>
      [] OTHER -> <<"Quit:exception">>

\* a loop without the break of line 282
QuitNextPc_NoBreak(response) ==
    IF response = "exception" THEN "done" ELSE "loop"

\* where the loop goes after a response: break on success (line 282), out
\* of the function on an error that line 283 does not catch, round again
\* otherwise
QuitNextPc(response) ==
    IF response \in {"ok", "exception"} THEN "done" ELSE "loop"

InitQuit ==
    /\ IdleOrch /\ IdleVal /\ IdleClick /\ IdleWait
    /\ IdleAct /\ IdleChk /\ IdleRes /\ IdleSel
    /\ IdleThread
    /\ IdleLeft
    /\ IdleFind
    /\ IdleConfig
    /\ IdleText
    /\ now \in 0..MaxStart
    /\ \/ /\ q_retries \in 0..MaxRetries
          /\ q_delay \in 0..MaxDelay
          /\ q_i = 0
          /\ q_pc = "loop"
          /\ q_log = <<>>
          /\ q_start = now
          /\ q_result = "none"
          /\ IdleDriver
       \/ /\ IdleExcel
          /\ d_driver \in BOOLEAN
          /\ d_pc = "call"
          /\ d_calls = 0
          /\ d_quits = 0
          /\ d_result = "none"
          /\ d_caller = "none"
          /\ d_log = <<>>

driverVars == <<d_driver, d_pc, d_calls, d_quits, d_result, d_caller, d_log>>

\* excel_automation.py lines 278-301: one trip round the loop
QuitAttempt ==
    /\ UNCHANGED notQuit
    /\ q_pc = "loop"
    /\ q_i < q_retries
    /\ \E response \in QuitResponses :
          /\ q_log' = q_log \o QuitEvents(response)
          /\ now' = IF response = "busy" THEN now + q_delay * TicksPerSecond
                    ELSE now
          /\ q_pc' = QuitNextPc(response)
          /\ q_result' = CASE response = "ok" -> "returned"
                           [] response = "exception" -> "Exception"
                           [] OTHER -> q_result
    /\ q_i' = q_i + 1
    /\ UNCHANGED <<q_retries, q_delay, q_start, driverVars>>

\* excel_automation.py line 278: range(retries) is used up
QuitExhausted ==
    /\ UNCHANGED notQuit
    /\ q_pc = "loop"
    /\ q_i >= q_retries
    /\ q_pc' = "done"
    /\ q_result' = "returned"
    /\ UNCHANGED <<now, q_retries, q_delay, q_i, q_log, q_start, driverVars>>

\* who calls WebActions.quit: the program, the exit hook of line 194, or
\* __del__ (lines 196-206)
QuitCallers == {"explicit", "atexit", "del"}

\* what the caller of quit sees: __del__ wraps the call in try / except
\* Exception: pass (lines 203-206), the others get what quit raised
CallerSees(caller, outcome) == IF caller = "del" THEN "returned" ELSE outcome

\* a quit that keeps its reference to the driver
DriverAfterQuit_Keep(driver) == driver

\* line 1947: self.driver = None
DriverAfterQuit(driver) == FALSE

\* web_actions.py lines 1940-1947: one call of WebActions.quit
DriverQuit ==
    /\ UNCHANGED notQuit
    /\ d_pc = "call"
    /\ d_calls < MaxQuitCalls
    /\ d_calls' = d_calls + 1
    /\ \E caller \in QuitCallers :
          /\ d_caller' = caller
          /\ IF d_driver
             THEN /\ d_quits' = d_quits + 1
                  /\ \/ /\ d_driver' = DriverAfterQuit(d_driver)
                        /\ d_result' = CallerSees(caller, "returned")
                        /\ d_log' = Append(d_log, "quit:ok")
                     \/ /\ d_driver' = d_driver
                        /\ d_result' = CallerSees(caller, "WebDriverException")
                        /\ d_log' = Append(d_log, "quit:fail")
             ELSE /\ d_result' = CallerSees(caller, "returned")
                  /\ d_log' = Append(d_log, "noop")
                  /\ UNCHANGED <<d_driver, d_quits>>
    /\ UNCHANGED <<now, d_pc, q_retries, q_delay, q_i, q_pc, q_log, q_start,
                   q_result>>

NextQuit == QuitAttempt \/ QuitExhausted \/ DriverQuit

SpecQuit == InitQuit /\ [][NextQuit]_vars

(***************************************************************************)
(* threaded_wait_until_element_text_changes                                *)
(***************************************************************************)
\* a join that does not wait for the worker
JoinReturns_AtOnce(worker_pc) == TRUE

\* thread.join() (line 937) returns once the target has returned or died
JoinReturns(worker_pc) == worker_pc = "done"

\* what ends the worker before its time
WorkerFaults == {"WebElementNotFoundError", "AttributeError"}

\* a join that re-raises in the caller what ended the worker
CallerOutcome_Propagate(worker_result) ==
    IF worker_result \in WorkerFaults THEN worker_result ELSE "returned"

\* lines 932-937: an exception that ends the target is handled in the
\* worker thread (threading's excepthook); join() returns None and the
\* wrapper returns after it
CallerOutcome(worker_result) == "returned"

\* the worker runs wait_until_element_text_changes from its start to its end
WorkerAlive == w_pc \in {"match", "change"}

InitThreaded ==
    /\ IdleOrch /\ IdleVal /\ IdleClick
    /\ IdleAct /\ IdleChk /\ IdleRes /\ IdleSel /\ IdleQuit
    /\ IdleLeft
    /\ IdleFind
    /\ IdleConfig
    /\ IdleText
    /\ now \in 0..MaxStart
    /\ w_op = "changes"
    /\ w_timeout \in 0..MaxWaitSeconds
    /\ w_inst_raise \in BOOLEAN
    /\ w_max_wait_time = w_timeout
    /\ w_start = now
    /\ w_pc = "unborn"
    /\ w_result = "none"
    /\ w_satisfied = FALSE
    /\ w_resolved = FALSE
    /\ w_confirmed = FALSE
    /\ w_change_polls = 0
    /\ t_pc = "call"
    /\ t_threads = 0
    /\ t_overlap = FALSE

\* lines 932-936: threading.Thread(target=...) and thread.start()
ThreadStart ==
    /\ UNCHANGED notThread
    /\ t_pc = "call"
    /\ t_pc' = "join"
    /\ t_threads' = t_threads + 1
    /\ w_pc' = "match"
    /\ UNCHANGED <<now, t_overlap, w_op, w_timeout, w_inst_raise,
                   w_max_wait_time, w_start, w_result, w_satisfied, w_resolved,
                   w_confirmed, w_change_polls>>

\* line 937: thread.join()
ThreadJoin ==
    /\ UNCHANGED notThread
    /\ t_pc = "join"
    /\ JoinReturns(w_pc)
    /\ t_pc' = CallerOutcome(w_result)
    /\ UNCHANGED <<now, waitVars, t_threads, t_overlap>>

\* the calling thread goes on to its next interaction with the driver
CallerNextInteraction ==
    /\ UNCHANGED notThread
    /\ t_pc = "returned"
    /\ t_pc' = "next"
    /\ t_overlap' = (t_overlap \/ WorkerAlive)
    /\ UNCHANGED <<now, waitVars, t_threads>>

NextThreaded ==
    \/ ThreadStart
    \/ ThreadJoin
    \/ CallerNextInteraction
    \/ WaitMatchIteration
    \/ WaitMatchExhausted
    \/ WaitChangeIteration
    \/ WaitChangeExhausted

SpecThreaded == InitThreaded /\ [][NextThreaded]_vars

(***************************************************************************)
(* _time_left                                                              *)
(***************************************************************************)
MaxTimeout == 4  \* largest timeout of the wait, in ticks
MaxElapsed == 6  \* how far the clock runs past the start, in ticks

InitTimeLeft ==
    /\ IdleOrch /\ IdleVal /\ IdleClick /\ IdleWait
    /\ IdleAct /\ IdleChk /\ IdleRes /\ IdleSel /\ IdleQuit
    /\ IdleThread
    /\ IdleFind
    /\ IdleConfig
    /\ IdleText
    /\ now \in 0..MaxStart
    /\ l_start = now
    /\ l_timeout \in (-1)..MaxTimeout
    /\ l_remaining = l_timeout
    /\ l_prev = l_timeout
    /\ l_read_at = now
    /\ l_reads = 0
    /\ l_pc = "waiting"

\* the clock advances while the wait is under way
ClockTick ==
    /\ UNCHANGED notLeft
    /\ l_pc = "waiting"
    /\ now < l_start + MaxElapsed
    /\ now' = now + 1
    /\ UNCHANGED leftVars

\* lines 105-108: one call of _time_left(start, timeout)
ReadTimeLeft ==
    /\ UNCHANGED notLeft
    /\ l_pc = "waiting"
    /\ l_reads < MaxElapsed
    /\ l_prev' = (IF l_reads = 0 THEN TimeLeft(l_start, l_timeout, now)
                  ELSE l_remaining)
    /\ l_remaining' = TimeLeft(l_start, l_timeout, now)
    /\ l_read_at' = now
    /\ l_reads' = l_reads + 1
    /\ UNCHANGED <<now, l_start, l_timeout, l_pc>>

NextTimeLeft == ClockTick \/ ReadTimeLeft

SpecTimeLeft == InitTimeLeft /\ [][NextTimeLeft]_vars

(***************************************************************************)
(* _get_find_method                                                        *)
(***************************************************************************)
MaxLocatorLen == 3  \* longest locator classified, in characters
MaxFindCalls == 2   \* classifications of one locator

\* characters a locator is made of here: the two that matter and one letter
LocatorChars == {"/", "(", "a"}

LocatorStrings == UNION {[1..n -> LocatorChars] : n \in 0..MaxLocatorLen}

\* str.startswith
StartsWith(s, prefix) ==
    /\ Len(s) >= Len(prefix)
    /\ \A i \in 1..Len(prefix) : s[i] = prefix[i]

\* a classification that takes any leading slash for a path expression
FindMethod_AnySlash(element) ==
    IF StartsWith(element, <<"/">>) \/ StartsWith(element, <<"(">>)
    THEN "XPATH" ELSE "ID"

\* lines 215-217
FindMethod(element) ==
    IF StartsWith(element, <<"/", "/">>) \/ StartsWith(element, <<"(">>)
    THEN "XPATH" ELSE "ID"

InitFind ==
    /\ IdleOrch /\ IdleVal /\ IdleClock /\ IdleClick /\ IdleWait
    /\ IdleAct /\ IdleChk /\ IdleRes /\ IdleSel /\ IdleQuit
    /\ IdleThread /\ IdleLeft
    /\ IdleConfig
    /\ IdleText
    /\ f_element \in LocatorStrings
    /\ f_inst_raise \in BOOLEAN
    /\ f_inst_raise0 = f_inst_raise
    /\ f_result = "none"
    /\ f_prev = "none"
    /\ f_calls = 0

\* lines 208-217: one call of the static method
GetFindMethod ==
    /\ UNCHANGED notFind
    /\ f_calls < MaxFindCalls
    /\ f_prev' = f_result
    /\ f_result' = FindMethod(f_element)
    /\ f_calls' = f_calls + 1
    /\ UNCHANGED <<f_element, f_inst_raise, f_inst_raise0>>

\* between two classifications the instance is used by something else:
\* check_element_exist sets self.raise_exception (lines 288-289)
InstanceChanges ==
    /\ UNCHANGED notFind
    /\ f_calls < MaxFindCalls
    /\ f_inst_raise' = ~f_inst_raise
    /\ f_inst_raise0' = f_inst_raise'
    /\ UNCHANGED <<f_element, f_result, f_prev, f_calls>>

NextFind == GetFindMethod \/ InstanceChanges

SpecFind == InitFind /\ [][NextFind]_vars

(***************************************************************************)
(* read_config                                                             *)
(***************************************************************************)
ConfigTags == {"DOWNLOAD_DIR", "OCA_XPATH"}

\* values of a tag in config.yaml: blank (None), a path that exists, a path
\* that does not
ConfigValues == {"None", "/data", "/gone"}

\* os.path.exists
PathExists(v) == v = "/data"

\* the mappings yaml.load can give for the tags above
Configs == UNION {[K -> ConfigValues] : K \in SUBSET ConfigTags}

\* values of if_none_return: None (the default) or a default to substitute
Defaults == {"None", "fallback"}

\* lines 52-65: the body of read_config on a loaded configuration
ReadConfig(config, tag, write_to_console, raise_error_on_not_found, validate_existence, if_none_return) ==
    IF write_to_console /\ tag \notin DOMAIN config
    THEN [kind |-> "KeyError", value |-> "None"]
    ELSE IF tag \notin DOMAIN config
    THEN [kind |-> "ConfigKeyMissingError", value |-> "None"]
    ELSE IF raise_error_on_not_found /\ config[tag] = "None"
    THEN [kind |-> "ConfigDataBlankError", value |-> "None"]
    ELSE IF validate_existence /\ config[tag] = "None"
    THEN [kind |-> "TypeError", value |-> "None"]
    ELSE IF validate_existence /\ ~PathExists(config[tag])
    THEN [kind |-> "FileNotFoundError", value |-> "None"]
    ELSE IF if_none_return # "None" /\ config[tag] = "None"
    THEN [kind |-> "value", value |-> if_none_return]
    ELSE [kind |-> "value", value |-> config[tag]]

InitConfig ==
    /\ IdleOrch /\ IdleVal /\ IdleClock /\ IdleClick /\ IdleWait
    /\ IdleAct /\ IdleChk /\ IdleRes /\ IdleSel /\ IdleQuit
    /\ IdleThread /\ IdleLeft /\ IdleFind
    /\ IdleText
    /\ g_config \in Configs
    /\ g_tag \in ConfigTags
    /\ g_write_to_console \in BOOLEAN
    /\ g_raise_error_on_not_found \in BOOLEAN
    /\ g_validate_existence \in BOOLEAN
    /\ g_if_none_return \in Defaults
    /\ g_pc = "call"
    /\ g_result = [kind |-> "none", value |-> "None"]

\* lines 33-65: one call of read_config
ReadConfigCall ==
    /\ UNCHANGED notConfig
    /\ g_pc = "call"
    /\ g_result' = ReadConfig(g_config, g_tag, g_write_to_console,
                              g_raise_error_on_not_found, g_validate_existence,
                              g_if_none_return)
    /\ g_pc' = "done"
    /\ UNCHANGED <<g_config, g_tag, g_write_to_console,
                   g_raise_error_on_not_found, g_validate_existence,
                   g_if_none_return>>

NextConfig == ReadConfigCall

SpecConfig == InitConfig /\ [][NextConfig]_vars

(***************************************************************************)
(* set_text with validate=True: the re-injection loop                      *)
(***************************************************************************)
MaxReinjections == 3  \* largest max_validation_attempts passed

\* what _get_element_if_exist gives on line 700: the element, None in
\* suppressed mode, WebElementNotFoundError in escalated mode
ResolutionKinds(inst_raise) ==
    {"found"} \cup (IF inst_raise THEN {"raises"} ELSE {"none"})

\* lines 706-708: the calls one re-injection makes on the element
ReinjectOps(clear_text) ==
    IF clear_text THEN <<"clear", "send_keys">> ELSE <<"send_keys">>

\* a loop end that never reports the failure
ValidationVerdict_NeverRaise(attempts, max_validation_attempts) == "returned"

\* lines 713-719: after the loop, `if attempts == max_validation_attempts`
ValidationVerdict(attempts, max_validation_attempts) ==
    IF attempts = max_validation_attempts THEN "Exception" ELSE "returned"

InitSetText ==
    /\ IdleOrch /\ IdleVal /\ IdleClock /\ IdleClick /\ IdleWait
    /\ IdleAct /\ IdleChk /\ IdleRes /\ IdleSel /\ IdleQuit
    /\ IdleThread /\ IdleLeft /\ IdleFind /\ IdleConfig
    /\ x_validate \in BOOLEAN
    /\ x_max_validation_attempts \in 0..MaxReinjections
    /\ x_clear_text \in BOOLEAN
    /\ x_inst_raise \in BOOLEAN
    /\ x_attempts = 0
    /\ x_pc = "call"
    /\ x_result = "none"
    /\ x_ops = <<>>
    /\ x_reads = <<>>
    /\ x_differed = FALSE
    /\ x_sleeps = 0

\* lines 693-699: the first injection through _perform_action, which types
\* into the element when it resolves and swallows every error, and the test
\* of validate
SetTextInject ==
    /\ UNCHANGED notText
    /\ x_pc = "call"
    /\ \E injected \in BOOLEAN :
          x_ops' = IF injected THEN ActionOps("set_text") ELSE <<>>
    /\ IF x_validate
       THEN x_pc' = "resolve" /\ UNCHANGED x_result
       ELSE x_pc' = "done" /\ x_result' = "returned"
    /\ UNCHANGED <<x_validate, x_max_validation_attempts, x_clear_text,
                   x_inst_raise, x_attempts, x_reads, x_differed, x_sleeps>>

\* lines 700-704: resolve the element again and read its value; an equal
\* value ends the call, a different one sets attempts = 0 and enters the loop
SetTextFirstRead ==
    /\ UNCHANGED notText
    /\ x_pc = "resolve"
    /\ \E res \in ResolutionKinds(x_inst_raise) :
          CASE res = "raises" ->
                 /\ x_pc' = "done"
                 /\ x_result' = "WebElementNotFoundError"
                 /\ UNCHANGED <<x_differed, x_attempts>>
            [] res = "none" ->
                 \* None.get_attribute
                 /\ x_pc' = "done"
                 /\ x_result' = "AttributeError"
                 /\ UNCHANGED <<x_differed, x_attempts>>
            [] OTHER ->
                 \E equal \in BOOLEAN :
                    IF equal
                    THEN /\ x_pc' = "done"
                         /\ x_result' = "returned"
                         /\ UNCHANGED <<x_differed, x_attempts>>
                    ELSE /\ x_pc' = "loop"
                         /\ x_differed' = TRUE
                         /\ x_attempts' = 0
                         /\ UNCHANGED x_result
    /\ UNCHANGED <<x_validate, x_max_validation_attempts, x_clear_text,
                   x_inst_raise, x_ops, x_reads, x_sleeps>>

\* lines 705-712: one trip round the while loop; the element takes the keys
\* and shows a value that equals the text or not, or a call on it lets a
\* driver error escape
SetTextReinject ==
    /\ UNCHANGED notText
    /\ x_pc = "loop"
    /\ x_attempts < x_max_validation_attempts
    /\ x_ops' = x_ops \o ReinjectOps(x_clear_text)
    /\ \E outcome \in {"equal", "differs", "fault"} :
          CASE outcome = "equal" ->
                 /\ x_reads' = Append(x_reads, TRUE)
                 /\ x_pc' = "after"
                 /\ UNCHANGED <<x_attempts, x_sleeps, x_result>>
            [] outcome = "differs" ->
                 /\ x_reads' = Append(x_reads, FALSE)
                 /\ x_sleeps' = x_sleeps + 1
                 /\ x_attempts' = x_attempts + 1
                 /\ UNCHANGED <<x_pc, x_result>>
            [] OTHER ->
                 /\ x_pc' = "done"
                 /\ x_result' = "DriverFault"
                 /\ UNCHANGED <<x_reads, x_attempts, x_sleeps>>
    /\ UNCHANGED <<x_validate, x_max_validation_attempts, x_clear_text,
                   x_inst_raise, x_differed>>

\* line 705: the while test fails
SetTextLoopExhausted ==
    /\ UNCHANGED notText
    /\ x_pc = "loop"
    /\ ~(x_attempts < x_max_validation_attempts)
    /\ x_pc' = "after"
    /\ UNCHANGED <<x_validate, x_max_validation_attempts, x_clear_text,
                   x_inst_raise, x_attempts, x_result, x_ops, x_reads,
                   x_differed, x_sleeps>>

\* lines 713-722: raise the failure or log the success and return
SetTextVerdict ==
    /\ UNCHANGED notText
    /\ x_pc = "after"
    /\ x_result' = ValidationVerdict(x_attempts, x_max_validation_attempts)
    /\ x_pc' = "done"
    /\ UNCHANGED <<x_validate, x_max_validation_attempts, x_clear_text,
                   x_inst_raise, x_attempts, x_ops, x_reads, x_differed,
                   x_sleeps>>

NextSetText ==
    \/ SetTextInject
    \/ SetTextFirstRead
    \/ SetTextReinject
    \/ SetTextLoopExhausted
    \/ SetTextVerdict

SpecSetText == InitSetText /\ [][NextSetText]_vars

(***************************************************************************)
(* Properties of repeat_steps_until_success (SpecOrch)                     *)
(***************************************************************************)
Returned == pc = "done" /\ result.kind \in {"Data", "bool"}
LastStopTexts == steps[Len(steps)].stop_texts
MaxOf(S) == CHOOSE m \in S : \A x \in S : x <= m
\* the configured attempt count and every per-step override
AttemptCounts ==
    {initial_attempts} \cup
    {steps[i].no_of_attempts : i \in {k \in 1..Len(steps) : steps[k].no_of_attempts # NoKey}}

\* C1: once a validate_text step has observed a text of its stop-text set,
\* a call that returns returns a failure (status false), and the data it
\* carries is that stop text.
C1_StopTextReturnsFailure ==
    (Returned /\ stopSeen.pass > 0) =>
        /\ result.status = FALSE
        /\ (result.kind = "Data" => result.data = Some(stopSeen.text))

\* C2 as stated: a call that returns data after a validate_text step has
\* observed its expected text returns success with exactly that text.
C2_MatchReturnsMatchedText ==
    (Returned /\ matched.pass > 0 /\ result.kind = "Data") =>
        /\ result.status = TRUE
        /\ result.data = Some(matched.text)

\* C2 amended: after a validate_text step has observed its expected text no
\* further pass is started, and a call that returns returns success; the
\* data it carries is the text observed by the last validate_text step
\* executed in that pass.
C2_MatchEndsAfterThatPass ==
    matched.pass > 0 =>
        /\ passes = matched.pass
        /\ Returned => /\ result.status = TRUE
                       /\ (result.kind = "Data" => result.data = lastObs)

\* C2 witness: a match in the first pass with attempts to spare, returned
\* as Data at the end of that pass.
C2_Witness ==
    /\ Returned
    /\ result.kind = "Data"
    /\ matched.pass = 1
    /\ initial_attempts >= 2
    /\ result.data = Some(matched.text)

\* C3: while no validate_text step has matched and no stop text was seen,
\* no more passes are started than the largest attempt count in play (the
\* configured one or an override).
C3_AtMostNPasses ==
    (matched.pass = 0 /\ stopSeen.pass = 0) => passes <= MaxOf(AttemptCounts)

C6_TerminalIffMember ==
    [][(pc = "endpass" /\ ~break_flag /\ pc' # "done") =>
          ((pc' = "finish") <=> (~data.none /\ data.text \in LastStopTexts))]_vars

\* C7: a pass that ends with nothing captured and a non-empty stop-text
\* list on the final step goes back to the loop test, without a fault.
C7_EmptySlotNoFault ==
    [][(pc = "endpass" /\ ~break_flag /\ data.none /\ LastStopTexts # {}) =>
          pc' = "while"]_vars

(***************************************************************************)
(* Properties of validate_text (SpecValidate)                              *)
(***************************************************************************)
\* the expected text shows on one of the first no_of_attempts reads, and no
\* stop text shows on that read or an earlier one
ExpectedBeforeStop ==
    \E i \in 1..v_no_of_attempts :
        /\ v_feed[i] = v_text
        /\ \A j \in 1..i : v_feed[j] \notin v_stop_texts

\* C5: a validate_text that returns has status true exactly when the
\* expected text was observed on some attempt before any stop text and
\* within the attempts; otherwise its status is false and its data is the
\* text read last (None when nothing was read).
C5_StatusIffExpectedBeforeStop ==
    (v_pc = "done" /\ v_result.kind = "Data") =>
        /\ v_result.status <=> ExpectedBeforeStop
        /\ v_result.status => v_result.data = Some(v_text)
        /\ ~v_result.status =>
              v_result.data = (IF v_reads = 0 THEN None ELSE Some(v_feed[v_reads]))

\* C5 witness: the expected text is itself a stop text and shows on the
\* second read, so the call returns status false with that text.
C5_Witness ==
    /\ v_pc = "done"
    /\ v_result.kind = "Data"
    /\ v_reads = 2
    /\ v_feed[2] = v_text
    /\ v_text \in v_stop_texts
    /\ ~v_result.status

C9_ClickWithinBudget ==
    /\ c_wait_start >= 0 =>
          /\ c_wait_start < c_start + c_max_wait_time
          /\ c_wait_start + c_wait_budget = c_start + c_max_wait_time
    /\ (c_pc \in {"after", "done"} /\ ~c_clicked) =>
          now - c_start <= c_max_wait_time + PollTicks

\* C9 witness: a click that was retried and ended, unsuccessful, one retry
\* interval past its deadline.
C9_Witness ==
    /\ c_pc = "done"
    /\ ~c_clicked
    /\ c_tries >= 2
    /\ c_max_wait_time >= 2
    /\ now - c_start = c_max_wait_time + PollTicks

(***************************************************************************)
(* Properties of the text waits (SpecWait)                                 *)
(***************************************************************************)
\* C10: a text wait with timeout T whose element never resolved has
\* returned within T plus one polling interval of its start (granted here:
\* the one-second sleep of the loop and one poll of the resolution).
C10_WaitWithinTimeout ==
    (w_pc = "done" /\ ~w_resolved /\ w_result \in {"False", "returned"}) =>
        now - w_start <= (w_timeout + 1) * TicksPerSecond + PollTicks

(***************************************************************************)
(* Properties of the atomic actions (SpecAction)                           *)
(***************************************************************************)
\* C11: an error met while an atomic action runs is swallowed (the action
\* returns normally) on an instance that does not propagate, and reaches
\* the caller as an element-action error on an instance that does.
C11_FaultFollowsFlag ==
    (a_pc = "done" /\ a_fault # "none") =>
        a_result = (IF a_inst_raise THEN "ElementActionError" ELSE "returned")

(***************************************************************************)
(* Properties of check_element_exist (SpecCheck)                           *)
(***************************************************************************)
\* C12: whenever no call of check_element_exist is under way, and in the
\* tail of a call after its finally block, self.raise_exception has the
\* value it had before the first call, however each call ended.
C12_FlagRestored ==
    e_pc \in {"ready", "tail"} => e_flag = e_flag0

\* C12 witness: on an escalating instance a second call has ended with an
\* error out of the resolution.
C12_Witness ==
    /\ e_pc = "ready"
    /\ e_calls = 2
    /\ e_flag0 = TRUE
    /\ e_result = "KeyboardInterrupt"

\* C13: the helper never escalates inside check_element_exist, and a call
\* that did not find the element raises WebElementNotFoundError exactly
\* when its own raise_exception argument is True, whatever the instance
\* flag; with the argument False it returns None.
C13_ArgumentWins ==
    /\ e_elem # "raise"
    /\ (e_pc = "ready" /\ e_calls > 0 /\ e_elem = "none") =>
          e_result = (IF e_arg_raise THEN "WebElementNotFoundError" ELSE "None")

\* C13 witness: an escalating instance, the argument False, the element not
\* found, None returned.
C13_Witness ==
    /\ e_pc = "ready"
    /\ e_calls > 0
    /\ e_flag0 = TRUE
    /\ ~e_arg_raise
    /\ e_elem = "none"
    /\ e_result = "None"

(***************************************************************************)
(* Properties of _get_element_if_exist (SpecResolve)                       *)
(***************************************************************************)
\* C14: a resolution that does not find the element ends no sooner than its
\* budget T and no later than T plus one poll; it gives None on a
\* suppressed instance and WebElementNotFoundError on an escalated one;
\* with T = 0 it ends at once, without a single poll.
C14_MissWithinBudget ==
    (r_pc = "done" /\ r_result # "element") =>
        /\ r_result = (IF r_inst_raise THEN "WebElementNotFoundError" ELSE "None")
        /\ now - r_start >= r_max_wait_time
        /\ now - r_start <= r_max_wait_time + PollTicks
        /\ r_max_wait_time = 0 => (r_polls = 0 /\ now = r_start)

\* C14 witness: a one-second budget (four polls) on an escalated instance,
\* used up.
C14_Witness ==
    /\ r_pc = "done"
    /\ r_max_wait_time = TicksPerSecond
    /\ r_inst_raise
    /\ r_result = "WebElementNotFoundError"
    /\ r_polls >= TicksPerSecond

(***************************************************************************)
(* Properties of select_element / deselect_element (SpecSelect)            *)
(***************************************************************************)
Supplied == {k \in 1..3 : <<s_index, s_visible_text, s_value>>[k] # PyNone}

\* C15: a select or deselect ends with ParameterMissingError exactly when
\* none of index, visible_text and value was supplied, whatever the values
\* of the supplied ones, and then no resolution was attempted.
C15_MissingIffNoneSupplied ==
    s_pc = "done" =>
        /\ (s_result = "ParameterMissingError") <=> (Supplied = {})
        /\ s_result = "ParameterMissingError" => s_resolutions = 0

\* C16: with exactly one of the three parameters supplied, the method the
\* dispatcher calls is the action's prefix followed by that parameter's
\* kind.
C16_MethodMatchesKind ==
    (Len(s_invoked) > 0 /\ Cardinality(Supplied) = 1) =>
        \A k \in Supplied :
            s_invoked[1].method = RemoveSuffixElement(s_op) \o "_by_" \o KindOf(k)

IsPart(msg, text) == \E i \in 1..Len(msg) : msg[i] = text

\* C17: a failure of the primitive on a resolved element ends the call with
\* SelectionNotFoundError and a message holding the element, the method
\* attempted and the value attempted.
C17_PrimitiveFailureConverted ==
    (s_pc = "done" /\ s_fault # "none") =>
        /\ s_result = "SelectionNotFoundError"
        /\ IsPart(s_message, s_element)
        /\ IsPart(s_message, s_invoked[1].method)
        /\ IsPart(s_message, PyFormat(s_invoked[1].value))

\* C17 witness: option 2 does not exist in the resolved dropdown.
C17_Witness ==
    /\ s_pc = "done"
    /\ s_fault = "NoSuchElementException"
    /\ s_resolutions = 1
    /\ s_invoked = <<[method |-> "select_by_index", value |-> PyInt(2)]>>
    /\ s_result = "SelectionNotFoundError"

(***************************************************************************)
(* Properties of ExcelAutomation.quit and WebActions.quit (SpecQuit)       *)
(***************************************************************************)
IsQuitCall(e) == e \in {"Quit:ok", "Quit:busy", "Quit:com_error", "Quit:exception"}
IsSleep(e) == e = "sleep"
QuitCalls == SelectSeq(q_log, IsQuitCall)
Logged(e) == \E k \in 1..Len(q_log) : q_log[k] = e

\* C18: a quit with retries = 3 and delay = 2 s that is answered busy three
\* times has made three graceful attempts and ends with a forced kill.
C18_BusyThriceThenKill ==
    (/\ q_pc = "done" /\ q_retries = 3 /\ q_delay = 2
     /\ QuitCalls = <<"Quit:busy", "Quit:busy", "Quit:busy">>) =>
        /\ Len(QuitCalls) = 3
        /\ q_log[Len(q_log)] = "taskkill"

\* C19: quit calls Quit() at most retries times, sleeps delay after every
\* busy answer before anything else, and calls nothing after a Quit() that
\* succeeded.
C19_BoundedRetriesFixedDelay ==
    q_pc \in {"loop", "done"} =>
        /\ Len(QuitCalls) <= q_retries
        /\ \A k \in 1..Len(q_log) :
              /\ q_log[k] = "Quit:busy" =>
                    (k < Len(q_log) /\ q_log[k + 1] = "sleep")
              /\ q_log[k] = "Quit:ok" => k = Len(q_log)
        /\ now - q_start =
              Len(SelectSeq(q_log, IsSleep)) * q_delay * TicksPerSecond

\* C19 witness: busy twice, two sleeps of 2 s, then a Quit() that succeeds
\* with one attempt to spare.
C19_Witness ==
    /\ q_pc = "done"
    /\ q_retries = 3
    /\ q_delay = 2
    /\ q_log = <<"Quit:busy", "sleep", "Quit:busy", "sleep", "Quit:ok">>
    /\ now - q_start = 4 * TicksPerSecond

\* C20: a graceful quit that fails otherwise than by a busy answer is
\* followed by the forced kill, and the call of quit returns normally.
C20_FailureKillsAndReturns ==
    /\ (q_pc = "done" /\ (Logged("Quit:com_error") \/ Logged("Quit:exception"))) =>
          (Logged("taskkill") /\ q_result = "returned")
    /\ d_result # "WebDriverException"

C22_JoinedBeforeReturn ==
    /\ t_threads <= 1
    /\ t_pc \in {"returned", "next"} => (t_threads = 1 /\ w_pc = "done")
    /\ WorkerAlive => t_pc = "join"
    /\ ~t_overlap

\* C22 witness: the worker went through both phases up to the change of
\* the text, and the caller has gone on after the join.
C22_Witness ==
    /\ t_pc = "next"
    /\ t_threads = 1
    /\ w_pc = "done"
    /\ w_satisfied
    /\ now - w_start >= SleepOneSecond

\* C23: on an instance in suppressed mode validate_text ends only by using
\* up its attempts or by reading a stop text or the expected text, that
\* is, with a Data result, whatever the element does, its absence included.
C23_LoopEndsByBudgetOrPredicate ==
    (v_pc = "done" /\ ~v_inst_raise) => v_result.kind = "Data"

C24_TimeLeftClamped ==
    l_reads > 0 =>
        /\ l_remaining >= 0
        /\ l_remaining <= l_prev
        /\ \/ l_remaining = l_timeout - (l_read_at - l_start)
           \/ l_remaining = 0 /\ l_timeout - (l_read_at - l_start) < 0
        /\ l_read_at >= l_start + l_timeout => l_remaining = 0

\* C24 witness: a reading of 0 taken past the deadline, after a positive
\* one.
C24_Witness ==
    /\ l_reads > 1
    /\ l_prev > 0
    /\ l_remaining = 0
    /\ l_read_at > l_start + l_timeout

(***************************************************************************)
(* Properties of _get_find_method (SpecFind)                               *)
(***************************************************************************)
\* C25: a locator is classified XPATH exactly when it starts with two
\* slashes or with an opening parenthesis, and ID otherwise; a second
\* classification of the same locator gives the same strategy whatever the
\* instance's attributes are, and a classification leaves them alone.
C25_ClassifiedByPrefix ==
    f_calls > 0 =>
        /\ (f_result = "XPATH") <=>
              \/ Len(f_element) >= 2 /\ f_element[1] = "/" /\ f_element[2] = "/"
              \/ Len(f_element) >= 1 /\ f_element[1] = "("
        /\ f_result \in {"XPATH", "ID"}
        /\ f_calls > 1 => f_prev = f_result
        /\ f_inst_raise = f_inst_raise0

\* C25 witness: a locator that starts with a single slash is a flat
\* identifier, both times.
C25_Witness ==
    /\ f_calls = 2
    /\ f_element = <<"/", "a", "/">>
    /\ f_result = "ID"
    /\ f_prev = "ID"

\* C26: wait_until_element_text_changes is in its second phase, polling
\* for a text that differs, only after a poll of the first phase read the
\* known text; a call whose first phase never read it has returned without
\* a single poll of the second phase.
C26_ConfirmThenDiverge ==
    w_op = "changes" =>
        /\ (w_pc = "change" \/ w_change_polls > 0 \/ w_satisfied) => w_confirmed
        /\ (w_pc = "done" /\ ~w_confirmed) =>
              /\ w_change_polls = 0
              /\ w_result \in {"returned", "WebElementNotFoundError"}

\* C26 witness: the known text was confirmed, the second phase polled
\* twice and saw the text differ.
C26_Witness ==
    /\ w_op = "changes"
    /\ w_pc = "done"
    /\ w_confirmed
    /\ w_change_polls = 2
    /\ w_satisfied

C29_MissingTagRaisesKeyMissing ==
    (g_pc = "done" /\ g_tag \notin DOMAIN g_config) =>
        g_result.kind = "ConfigKeyMissingError"

\* the steps among the first n that carry an attempts override
Overriding(n) == {i \in 1..n : i <= Len(steps) /\ steps[i].no_of_attempts # NoKey}
\* the override in force once the first n steps were dispatched
OverrideInForce(n) == steps[MaxOf(Overriding(n))].no_of_attempts

TakesWait == {"click", "validate_text"}

\* C31: a max_wait_time override applies only to the step that declares it:
\* a step without its own override is dispatched with the max_wait_time the
\* caller passed for the sequence, in the same pass and in all later passes.
C31_OverrideOnlyOnDeclaringStep ==
    (/\ used_wait.idx > 0
     /\ steps[used_wait.idx].max_wait_time = NoKey
     /\ steps[used_wait.idx].action \in TakesWait)
        => used_wait.wait = o_initial_wait

\* the positions 1..n in list order
Ids(n) == [i \in 1..n |-> i]

\* an error escaped from a step before the pass was through
StepFaults == {"ElementFault", "DriverFault"}

\* C32: each pass dispatches every step of the list exactly once, in list
\* order, with the inter-step sleep after each step; a validate_text match
\* or a stop text in the middle of a pass does not cut the pass short: the
\* loop is only left (or re-entered) after the whole list was dispatched.
C32_EveryStepOncePerPass ==
    /\ pc = "step" => dispatched = Ids(idx - 1) /\ sleeps = idx - 1
    /\ (pc \in {"endpass", "finish", "while", "done"} /\ passes > 0
            /\ result.kind \notin StepFaults)
          => dispatched = Ids(Len(steps)) /\ sleeps = Len(steps)

\* a pass whose first step matched went on to dispatch its second step
C32_Witness ==
    /\ pc = "finish"
    /\ Len(steps) = 2
    /\ steps[1].action = "validate_text"
    /\ steps[2].action = "click"
    /\ break_flag
    /\ ~postPass.stopped
    /\ dispatched = <<1, 2>>
    /\ sleeps = 2

\* a step list with no validate_text step and no stop texts on its last step
NothingToMatch ==
    /\ \A i \in 1..Len(steps) : steps[i].action # "validate_text"
    /\ steps[Len(steps)].stop_texts = {}

\* no step replaces the attempt counter
NoOverrides == \A i \in 1..Len(steps) : steps[i].no_of_attempts = NoKey

C34_DataIsLastValidatedText ==
    /\ data = lastObs
    /\ data.none <=> validates = 0
    /\ (pc = "done" /\ result.kind = "Data") => result.data = lastObs

\* a validate_text step followed by a get_text step, run twice: the Data
\* handed back holds the text the second validate_text saw
C34_Witness ==
    /\ pc = "done"
    /\ result.kind = "Data"
    /\ Len(steps) = 2
    /\ steps[1].action = "validate_text"
    /\ steps[2].action = "get_text"
    /\ validates = 2
    /\ result.data = Some(<<"e">>)

(***************************************************************************)
(* Further properties of select_element / deselect_element                 *)
(***************************************************************************)
\* the call is over, in suppressed mode, after a resolution that gave no
\* element: the parameters passed the guard and nothing was invoked
ResolvedToNothing ==
    /\ s_pc = "done"
    /\ ~s_inst_raise
    /\ s_resolutions = 1
    /\ s_invoked = <<>>

\* C35: when resolution yields no element (suppressed mode) and a selection
\* parameter was supplied, select_element and deselect_element invoke no
\* selection primitive, raise no error and return normally, as a performed
\* selection does.
C35_MissingElementReturnsNormally ==
    /\ ResolvedToNothing => s_result = "returned" /\ s_fault = "none"
    /\ (s_pc = "done" /\ s_invoked # <<>> /\ s_fault = "none")
          => s_result = "returned"
    /\ (~s_inst_raise /\ s_pc = "done") => s_result # "WebElementNotFoundError"

\* a selection by value on an element that never appeared came back
C35_Witness ==
    /\ ResolvedToNothing
    /\ s_value # PyNone
    /\ s_result = "returned"

\* the last of index, visible_text, value that was passed
LastSupplied == CHOOSE k \in Supplied : \A j \in Supplied : j <= k

\* C36: when more than one of index, visible_text, value is supplied,
\* exactly one selection primitive is invoked, and it is the one for the
\* last supplied parameter in the order index, visible_text, value.
C36_LastSuppliedParameterWins ==
    (s_invoked # <<>> /\ Cardinality(Supplied) > 1) =>
        /\ Len(s_invoked) = 1
        /\ s_invoked[1].method =
              RemoveSuffixElement(s_op) \o "_by_" \o KindOf(LastSupplied)
        /\ s_invoked[1].value = <<s_index, s_visible_text, s_value>>[LastSupplied]

(***************************************************************************)
(* Further properties of threaded_wait_until_element_text_changes          *)
(***************************************************************************)
\* C37: a fault raised inside the background worker (an escalated
\* WebElementNotFoundError, or the read of the text of an absent element)
\* is not propagated to the caller: the wrapper returns normally after the
\* join whatever happened in the worker.
C37_WorkerFaultNotPropagated ==
    /\ t_pc \in {"call", "join", "returned", "next"}
    /\ (w_pc = "done" /\ w_result \in WorkerFaults /\ t_pc # "join")
          => t_pc \in {"returned", "next"}

\* the worker died of an escalated resolution and the wrapper has returned
C37_Witness ==
    /\ w_pc = "done"
    /\ w_result = "WebElementNotFoundError"
    /\ t_pc = "returned"

(***************************************************************************)
(* Further properties of ExcelAutomation.quit                              *)
(***************************************************************************)
\* the forced kills of the host process made so far
IsKill(e) == e = "taskkill"
Kills == SelectSeq(q_log, IsKill)

\* C38: within one quit call the forced kill is performed at most once, and
\* after a forced kill no further graceful quit attempt is made.
C38_KillOnceThenStop ==
    /\ Len(Kills) <= 1
    /\ \A j, k \in 1..Len(q_log) :
          (q_log[j] = "taskkill" /\ j < k) => ~IsQuitCall(q_log[k])

(***************************************************************************)
(* Properties of set_text with validate=True (SpecSetText)                 *)
(***************************************************************************)
\* the value differed after the first injection and the call ended without
\* a driver error in the loop
ValidatedToTheEnd ==
    x_pc = "done" /\ x_differed /\ x_result # "DriverFault"

\* C39: set_text with validate=True, when the value differs from the text
\* after the first injection, re-injects at most max_validation_attempts
\* times, stops at the first re-injection after which the value equals the
\* text, and raises the failure exactly when the value still differs after
\* max_validation_attempts re-injections, at once when that number is 0.
C39_ReinjectUntilEqualOrExhausted ==
    /\ Len(x_reads) <= x_max_validation_attempts
    /\ \A k \in 1..(Len(x_reads) - 1) : ~x_reads[k]
    /\ ValidatedToTheEnd =>
          /\ x_result \in {"Exception", "returned"}
          /\ x_result = "Exception" <=>
                /\ Len(x_reads) = x_max_validation_attempts
                /\ \A k \in 1..Len(x_reads) : ~x_reads[k]
          /\ x_result = "returned" <=>
                (Len(x_reads) > 0 /\ x_reads[Len(x_reads)])

\* the second of three allowed re-injections took, and the call returned
C39_Witness ==
    /\ x_pc = "done"
    /\ x_differed
    /\ x_max_validation_attempts = 3
    /\ x_reads = <<FALSE, TRUE>>
    /\ x_result = "returned"

====
